---- MODULE Spec2Model ----
(***************************************************************************)
(* A model of the Vonage event webhook of agent_alerts_weekly_form.py:     *)
(* the event normaliser, the state classifier, the duration tracker and    *)
(* the alert decision engine, with the three module-level tables           *)
(* agent_presence_states, agent_state_timestamps and last_alerts.          *)
(*                                                                         *)
(* Representation.                                                         *)
(*  - A timestamp is a number of seconds since Monday 00:00:00 UTC of a    *)
(*    reference week in which every time zone of agent_shifts is on        *)
(*    standard time.                                                       *)
(*  - A Python dict is a function; "k in d" is k \in DOMAIN d.  The keys   *)
(*    f"{agent}:{agent_state}" are the pairs <<agent, agent_state>>.       *)
(*  - None as an agent or as a state is the string "None"; a falsy name    *)
(*    is "".                                                               *)
(*  - A duration in minutes (a Python float) is the exact fraction         *)
(*    <<numerator, denominator>>.                                          *)
(***************************************************************************)
EXTENDS Integers, Sequences, FiniteSets, TLC

VARIABLES
    agent_presence_states,   \* agent -> <<agent_state, timestamp>>
    agent_state_timestamps,  \* <<agent, agent_state>> -> timestamp
    last_alerts,             \* <<agent, agent_state>> -> timestamp
    out,                     \* what the last handled request computed and answered
    sunk,                    \* the alerts handed to the sinks so far
    entered,                 \* agent -> the state it is in and when it first entered it
    nEvents,                 \* requests handled so far
    calc,                    \* the decision table's inputs and result (SpecDecide)
    thr,                     \* the concurrent requests in flight (SpecConc)
    origin                   \* the tables when the concurrent requests arrived

vars == <<agent_presence_states, agent_state_timestamps, last_alerts, out, sunk,
          entered, nEvents, calc, thr, origin>>

(***************************************************************************)
(* Units                                                                   *)
(***************************************************************************)
SecPerMin == 60
MsPerSec == 1000
SecPerHour == 60 * SecPerMin
SecPerDay == 24 * SecPerHour

Minutes(n) == n * SecPerMin

None == "None"

(***************************************************************************)
(* Shift calendar                                                          *)
(***************************************************************************)
DayNames == <<"Mon", "Tue", "Wed", "Thu", "Fri", "Sat", "Sun">>

Week(days, start, end) == [d \in days |-> <<start, end>>]

MonFri == {"Mon", "Tue", "Wed", "Thu", "Fri"}
TueSat == {"Tue", "Wed", "Thu", "Fri", "Sat"}
SunThu == {"Sun", "Mon", "Tue", "Wed", "Thu"}
ThuMon == {"Thu", "Fri", "Sat", "Sun", "Mon"}

\* An hour string such as "11am" is <<11, "am">>.
agent_shifts ==
    "Briana Roque" :> [timezone |-> "Canada/Atlantic",
                       shifts |-> Week(MonFri, <<11, "am">>, <<7, "pm">>)]
 @@ "Carla Hagerman" :> [timezone |-> "US/Eastern",
                         shifts |-> Week({"Tue", "Wed", "Thu", "Fri"}, <<10, "am">>, <<6, "pm">>)
                                    @@ Week({"Sat"}, <<4, "pm">>, <<12, "am">>)]
 @@ "Carleisha Smith" :> [timezone |-> "US/Central",
                          shifts |-> Week(ThuMon, <<12, "am">>, <<8, "am">>)]
 @@ "Cassandra Dunn" :> [timezone |-> "US/Pacific",
                         shifts |-> Week(MonFri, <<1, "pm">>, <<9, "pm">>)]
 @@ "Crystalbell Miranda" :> [timezone |-> "US/Pacific",
                              shifts |-> Week(TueSat, <<12, "pm">>, <<8, "pm">>)]
 @@ "Dajah Blackwell" :> [timezone |-> "US/Central",
                          shifts |-> Week(SunThu, <<10, "am">>, <<6, "pm">>)]
 @@ "Felicia Martin" :> [timezone |-> "US/Eastern",
                         shifts |-> Week(MonFri, <<8, "am">>, <<4, "pm">>)]
 @@ "Felicia Randall" :> [timezone |-> "Canada/Atlantic",
                          shifts |-> Week(TueSat, <<11, "am">>, <<7, "pm">>)]
 @@ "Indira Gonzalez" :> [timezone |-> "US/Eastern",
                          shifts |-> Week(TueSat, <<2, "pm">>, <<10, "pm">>)]
 @@ "Jason McLaughlin" :> [timezone |-> "US/Central",
                           shifts |-> Week(SunThu, <<8, "am">>, <<4, "pm">>)]
 @@ "Jeanette Bantz" :> [timezone |-> "US/Central",
                         shifts |-> Week({"Tue", "Wed", "Thu", "Fri"}, <<9, "am">>, <<5, "pm">>)
                                    @@ Week({"Sat"}, <<8, "am">>, <<4, "pm">>)]
 @@ "Jesse Lorenzana Escarfullery" :> [timezone |-> "Canada/Atlantic",
                                       shifts |-> Week(MonFri, <<11, "am">>, <<7, "pm">>)]
 @@ "Jessica Lopez" :> [timezone |-> "Canada/Atlantic",
                        shifts |-> Week(MonFri, <<12, "am">>, <<8, "am">>)]
 @@ "Lakeira Robinson" :> [timezone |-> "US/Eastern",
                           shifts |-> Week(SunThu, <<10, "am">>, <<6, "pm">>)]
 @@ "Lyne Jean" :> [timezone |-> "US/Eastern",
                    shifts |-> Week(SunThu, <<8, "am">>, <<4, "pm">>)]
 @@ "Natalie Sukhu" :> [timezone |-> "US/Eastern",
                        shifts |-> Week(TueSat, <<2, "pm">>, <<10, "pm">>)]
 @@ "Nicole Coleman" :> [timezone |-> "US/Pacific",
                         shifts |-> Week(TueSat, <<10, "am">>, <<6, "pm">>)]
 @@ "Peggy Richardson" :> [timezone |-> "US/Pacific",
                           shifts |-> Week(SunThu, <<10, "am">>, <<6, "pm">>)]
 @@ "Ramona Marshall" :> [timezone |-> "US/Eastern",
                          shifts |-> Week(MonFri, <<8, "am">>, <<4, "pm">>)]
 @@ "Rebecca Stokes" :> [timezone |-> "US/Central",
                         shifts |-> Week(SunThu, <<4, "pm">>, <<12, "am">>)]

\* pytz.timezone(name): the zone's offset from UTC, in hours, on standard time.
UtcOffsetHours(tz) ==
    CASE tz = "Canada/Atlantic" -> -4
      [] tz = "US/Eastern" -> -5
      [] tz = "US/Central" -> -6
      [] tz = "US/Pacific" -> -8

\* datetime.strptime(..., "%I%p"): the hour of day of an hour string.
StrptimeHour(h) == (h[1] % 12) + (IF h[2] = "pm" THEN 12 ELSE 0)

\* timestamp.astimezone(tz), as seconds since Monday 00:00 of the zone's
\* wall clock, a week added so that the number is never negative.
LocalTime(tz, timestamp) ==
    timestamp + UtcOffsetHours(tz) * SecPerHour + 7 * SecPerDay

\* local_time.strftime("%a")
DayOf(local_time) == DayNames[((local_time \div SecPerDay) % 7) + 1]

is_within_shift(agent, timestamp) ==
    IF agent \notin DOMAIN agent_shifts THEN FALSE
    ELSE LET agent_data == agent_shifts[agent]
             local_time == LocalTime(agent_data.timezone, timestamp)
             day == DayOf(local_time)
         IN  IF day \notin DOMAIN agent_data.shifts THEN FALSE
             ELSE LET shift == agent_data.shifts[day]
                      midnight == (local_time \div SecPerDay) * SecPerDay
                      start_time == midnight + StrptimeHour(shift[1]) * SecPerHour
                      end_time == midnight + StrptimeHour(shift[2]) * SecPerHour
                  IN  start_time <= local_time /\ local_time <= end_time

(***************************************************************************)
(* Durations                                                               *)
(***************************************************************************)
\* duration_ms / 1000 / 60
parse_duration(duration_ms) == <<duration_ms, MsPerSec * SecPerMin>>

\* The comparison made inclusive.
AtLeast(duration_min, n) == duration_min[1] >= n * duration_min[2]

\* duration_min > n, for a whole number n
MoreThan(duration_min, n) == duration_min[1] > n * duration_min[2]

DictSet(d, k, v) == [x \in DOMAIN d \cup {k} |-> IF x = k THEN v ELSE d[x]]

DictDel(d, k) == [x \in DOMAIN d \ {k} |-> d[x]]

EmptyDict == [x \in {} |-> 0]

get_event_duration(timestamps, agent, current_state, current_timestamp) ==
    LET state_key == <<agent, current_state>>
    IN  IF state_key \notin DOMAIN timestamps THEN 0
        ELSE (current_timestamp - timestamps[state_key]) * MsPerSec

(***************************************************************************)
(* Agent state rules                                                       *)
(***************************************************************************)
\* The rules with Logged Out alerting at any hour.
should_trigger_alert_any_hour(agent_state, duration_min, is_in_shift) ==
    IF agent_state \in {"Wrap", "Outgoing Wrap Up"} /\ MoreThan(duration_min, 2) THEN TRUE
    ELSE IF agent_state \in {"Ready", "Ready Outbound", "Idle", "Idle (Outbound)"}
            /\ MoreThan(duration_min, 2) /\ is_in_shift THEN TRUE
    ELSE IF agent_state = "Busy" /\ MoreThan(duration_min, 8) THEN TRUE
    ELSE IF agent_state = "Lunch" /\ MoreThan(duration_min, 30) THEN TRUE
    ELSE IF agent_state = "Break" /\ MoreThan(duration_min, 15) THEN TRUE
    ELSE IF agent_state = "Comfort Break" /\ MoreThan(duration_min, 5) THEN TRUE
    ELSE IF agent_state = "Logged Out" THEN TRUE
    ELSE IF agent_state \in {"Device Busy", "Device Unreachable", "Fault", "In Meeting",
                             "Paperwork", "Team Meeting", "Training"} THEN TRUE
    ELSE FALSE

should_trigger_alert(agent_state, duration_min, is_in_shift) ==
    IF agent_state \in {"Wrap", "Outgoing Wrap Up"} /\ MoreThan(duration_min, 2) THEN TRUE
    ELSE IF agent_state \in {"Ready", "Ready Outbound", "Idle", "Idle (Outbound)"}
            /\ MoreThan(duration_min, 2) /\ is_in_shift THEN TRUE
    ELSE IF agent_state = "Busy" /\ MoreThan(duration_min, 8) THEN TRUE
    ELSE IF agent_state = "Lunch" /\ MoreThan(duration_min, 30) THEN TRUE
    ELSE IF agent_state = "Break" /\ MoreThan(duration_min, 15) THEN TRUE
    ELSE IF agent_state = "Comfort Break" /\ MoreThan(duration_min, 5) THEN TRUE
    ELSE IF agent_state = "Logged Out" /\ is_in_shift THEN TRUE
    ELSE IF agent_state \in {"Device Busy", "Device Unreachable", "Fault", "In Meeting",
                             "Paperwork", "Team Meeting", "Training"} THEN TRUE
    ELSE FALSE

(***************************************************************************)
(* The event envelope                                                      *)
(*                                                                         *)
(* type         data["type"]; "" when missing                              *)
(* time         data["time"]: [fmt, t], fmt "iso" (parses to t), "garbage" *)
(*              (dateutil raises) or "absent" (the key is missing)         *)
(* user         data.user's first truthy of name, displayName, agentName;  *)
(*              "" when none is truthy, Absent without a user object       *)
(* interaction  whether data has an interaction object                     *)
(* ichannel     interaction.channel's agentName or name; Absent without it *)
(* ichannels    interaction.channels' names, in order; <<Absent>> without  *)
(* chan_party   data.channel's name when it has a party; Absent otherwise  *)
(* presence_type, subcategory, description   data.presence                 *)
(* ar_state, startTime, endTime              data.interaction              *)
(***************************************************************************)
Absent == "<absent>"

NoTime == [fmt |-> "absent", t |-> 0]

Iso(t) == [fmt |-> "iso", t |-> t]

Garbage == [fmt |-> "garbage", t |-> 0]

\* A parser that never raises.
parse_anything(timestamp_str) == [ok |-> TRUE, value |-> timestamp_str.t]

\* dateutil's parse(s).replace(tzinfo=pytz.UTC)
parse(timestamp_str) ==
    IF timestamp_str.fmt = "iso" THEN [ok |-> TRUE, value |-> timestamp_str.t]
    ELSE [ok |-> FALSE, value |-> 0]

\* str.lower() on the strings the events carry
Lower(s) ==
    CASE s = "Ready" -> "ready"
      [] s = "LOGGED_OUT" -> "logged_out"
      [] s = "Outbound" -> "outbound"
      [] s = "Away" -> "away"
      [] s = "Extended_Away" -> "extended_away"
      [] OTHER -> s

\* needle in s, on the strings the events carry
Contains(s, needle) ==
    \/ s = needle
    \/ s = "ready_outbound" /\ needle = "outbound"
    \/ s = "outbound calls" /\ needle = "outbound"

Truthy(name) == name \notin {"", None, Absent}

\* a or b, for two names
Or(a, b) == IF Truthy(a) THEN a ELSE b

RECURSIVE FirstTruthy(_)
\* the loop over interaction.channels, leaving the last name tried
FirstTruthy(names) ==
    IF names = <<>> THEN None
    ELSE IF Truthy(Head(names)) \/ Len(names) = 1 THEN Head(names)
    ELSE FirstTruthy(Tail(names))

ResolveAgent(e) ==
    IF e.type = "agent.presencechanged.v1" THEN
        IF e.user = Absent THEN None ELSE e.user
    ELSE IF e.interaction THEN
        IF e.ichannel # Absent THEN e.ichannel
        ELSE IF e.ichannels # <<Absent>> THEN FirstTruthy(e.ichannels)
        ELSE None
    ELSE IF e.chan_party # Absent THEN e.chan_party
    ELSE IF e.user # Absent THEN e.user
    ELSE None

\* the presence-change branch of the classifier
PresenceState(e) ==
    LET presence_type == Lower(e.presence_type)
        subcategory == Lower(e.subcategory)
        description == Lower(e.description)
    IN  CASE presence_type = "ready" ->
                IF \/ Contains(subcategory, "outbound") \/ Contains(description, "outbound")
                   \/ Contains(subcategory, "ready_outbound")
                   \/ Contains(description, "ready_outbound")
                THEN "Ready Outbound" ELSE "Ready"
          [] presence_type = "lunch" -> "Lunch"
          [] presence_type = "break" -> "Break"
          [] presence_type = "comfort_break" -> "Comfort Break"
          [] presence_type = "logged_out" -> "Logged Out"
          [] presence_type = "training" -> "Training"
          [] presence_type = "meeting" -> "In Meeting"
          [] presence_type = "paperwork" -> "Paperwork"
          [] presence_type = "idle" ->
                IF Contains(subcategory, "outbound") \/ Contains(description, "outbound")
                THEN "Idle (Outbound)" ELSE "Idle"
          [] presence_type = "team_meeting" -> "Team Meeting"
          [] OTHER -> None

\* the activity-record branch of the classifier
ActivityState(e) ==
    LET state == Lower(e.ar_state)
    IN  CASE state = "wrap" -> "Wrap"
          [] state = "busy" -> "Busy"
          [] state = "ready" -> "Ready"
          [] OTHER -> None

\* the call-channel table of the classifier
ChannelState(event_type) ==
    CASE event_type = "channel.connectionfailed.v1" -> "Device Busy"
      [] event_type = "channel.ended.v1" -> "Logged Out"
      [] event_type = "channel.held.v1" -> "Break"
      [] event_type = "channel.interrupted.v1" -> "Break"
      [] event_type = "channel.resumed.v1" -> "Ready"
      [] event_type = "channel.retrieved.v1" -> "Ready"
      [] event_type = "channel.unparked.v1" -> "Ready"
      [] event_type = "channel.wrapstarted.v1" -> "Wrap"
      [] OTHER -> None

\* No kind skipped before its time is read.
NoSkippedKinds == {}

SkippedKinds == {"channel.alerted.v1", "channel.connected.v1"}

\* No kind closing an interaction.
NoSuppressedKinds == {}

SuppressedKinds == {"channel.ended.v1", "channel.disconnected.v1", "interaction.detailrecord.v0"}

(***************************************************************************)
(* The webhook handler, as a function of the three tables, the request,    *)
(* the wall clock and the Slack call's outcome.  It answers with the       *)
(* tables it leaves and with what it computed on the way.                  *)
(***************************************************************************)
Answer(presence, timestamps, alerts, status, message) ==
    [presence |-> presence, timestamps |-> timestamps, alerts |-> alerts,
     status |-> status, message |-> message,
     agent |-> None, agent_state |-> None, timestamp |-> 0,
     duration_ms |-> 0, duration_min |-> parse_duration(0),
     is_in_shift |-> FALSE, alert |-> FALSE, delivered |-> FALSE]

\* The two branches writing the presence table for an activity record as
\* well.
ClassifyAndRecordAll(presence, timestamps, e, agent, timestamp) ==
    IF e.type = "agent.presencechanged.v1" THEN
        LET agent_state == PresenceState(e)
        IN  IF agent_state # None
            THEN [agent_state |-> agent_state,
                  presence |-> DictSet(presence, agent, <<agent_state, timestamp>>),
                  timestamps |-> DictSet(timestamps, <<agent, agent_state>>, timestamp)]
            ELSE [agent_state |-> None, presence |-> presence, timestamps |-> timestamps]
    ELSE IF e.type = "channel.activityrecord.v0" THEN
        LET agent_state == ActivityState(e)
        IN  [agent_state |-> agent_state,
             presence |-> IF agent_state # None
                          THEN DictSet(presence, agent, <<agent_state, timestamp>>)
                          ELSE presence,
             timestamps |-> timestamps]
    ELSE [agent_state |-> None, presence |-> presence, timestamps |-> timestamps]

\* lines 759-830: the presence-change and activity-record branches, with
\* their writes to the tables
ClassifyAndRecord(presence, timestamps, e, agent, timestamp) ==
    IF e.type = "agent.presencechanged.v1" THEN
        LET agent_state == PresenceState(e)
        IN  IF agent_state # None
            THEN [agent_state |-> agent_state,
                  presence |-> DictSet(presence, agent, <<agent_state, timestamp>>),
                  timestamps |-> DictSet(timestamps, <<agent, agent_state>>, timestamp)]
            ELSE [agent_state |-> None, presence |-> presence, timestamps |-> timestamps]
    ELSE IF e.type = "channel.activityrecord.v0" THEN
        LET agent_state == ActivityState(e)
            state_key == <<agent, agent_state>>
            start == parse(e.startTime)
            end == parse(e.endTime)
            started == IF agent_state # None /\ e.startTime.fmt # "absent" /\ start.ok
                       THEN DictSet(timestamps, state_key, start.value)
                       ELSE timestamps
            ended == IF e.endTime.fmt # "absent" /\ end.ok /\ state_key \in DOMAIN started
                     THEN DictDel(started, state_key)
                     ELSE started
        IN  [agent_state |-> agent_state, presence |-> presence, timestamps |-> ended]
    ELSE [agent_state |-> None, presence |-> presence, timestamps |-> timestamps]

\* The fallback without the stored presence state.
FallbackStateForgetful(presence, e, agent, agent_state) ==
    LET by_channel == IF agent_state = None THEN ChannelState(e.type) ELSE agent_state
    IN  IF by_channel = None THEN "Unknown" ELSE by_channel

\* lines 832-857: the call-channel table, the stored presence state, Unknown
FallbackState(presence, e, agent, agent_state) ==
    LET by_channel == IF agent_state = None THEN ChannelState(e.type) ELSE agent_state
        by_presence == IF by_channel = None /\ agent \in DOMAIN presence
                       THEN presence[agent][1] ELSE by_channel
    IN  IF by_presence = None THEN "Unknown" ELSE by_presence

\* A gate that lets every event through.
NeverDuplicate(alerts, alert_key, timestamp) == FALSE

\* The gate looking at the fires of the state, whoever the agent.
IsDuplicateOfAnyAgent(alerts, alert_key, timestamp) ==
    \E k \in DOMAIN alerts :
        k[2] = alert_key[2] /\ timestamp - alerts[k] < 5 * SecPerMin

\* The gate on the distance between the two times, whichever is the later.
IsDuplicateEitherSide(alerts, alert_key, timestamp) ==
    /\ alert_key \in DOMAIN alerts
    /\ timestamp - alerts[alert_key] < 5 * SecPerMin
    /\ alerts[alert_key] - timestamp < 5 * SecPerMin

\* The gate with the difference left in seconds.
IsDuplicateInSeconds(alerts, alert_key, timestamp) ==
    /\ alert_key \in DOMAIN alerts
    /\ timestamp - alerts[alert_key] < 5

\* lines 879-886: the de-duplication gate; TRUE when the event is suppressed
IsDuplicate(alerts, alert_key, timestamp) ==
    /\ alert_key \in DOMAIN alerts
    /\ timestamp - alerts[alert_key] < 5 * SecPerMin

\* The decision with the gate undoing the entry of the event it suppresses.
DecideBeforeUpdate(seen, presence, timestamps, alerts, is_in_shift, post_ok) ==
    LET state_key == <<seen.agent, seen.agent_state>>
    IN  IF IsDuplicate(alerts, state_key, seen.timestamp)
        THEN [is_in_shift |-> is_in_shift] @@ seen
             @@ Answer(presence, DictDel(timestamps, state_key), alerts, 200,
                       "Duplicate alert skipped")
        ELSE IF should_trigger_alert(seen.agent_state, seen.duration_min, is_in_shift)
        THEN [is_in_shift |-> is_in_shift, alert |-> TRUE, delivered |-> post_ok] @@ seen
             @@ Answer(presence, timestamps,
                       IF post_ok THEN DictSet(alerts, state_key, seen.timestamp) ELSE alerts,
                       200, "posted")
        ELSE [is_in_shift |-> is_in_shift] @@ seen
             @@ Answer(presence, timestamps, alerts, 200, "posted")

\* The decision recording the fingerprint whether or not Slack took the
\* alert.
DecideAndRecord(seen, presence, timestamps, alerts, is_in_shift, post_ok) ==
    LET state_key == <<seen.agent, seen.agent_state>>
    IN  IF IsDuplicate(alerts, state_key, seen.timestamp)
        THEN [is_in_shift |-> is_in_shift] @@ seen
             @@ Answer(presence, timestamps, alerts, 200, "Duplicate alert skipped")
        ELSE IF should_trigger_alert(seen.agent_state, seen.duration_min, is_in_shift)
        THEN [is_in_shift |-> is_in_shift, alert |-> TRUE, delivered |-> post_ok] @@ seen
             @@ Answer(presence, timestamps, DictSet(alerts, state_key, seen.timestamp),
                       200, "posted")
        ELSE [is_in_shift |-> is_in_shift] @@ seen
             @@ Answer(presence, timestamps, alerts, 200, "posted")

\* lines 876-933: the shift test, the de-duplication gate, the decision and
\* the two sinks
Decide(seen, presence, timestamps, alerts, is_in_shift, post_ok) ==
    LET state_key == <<seen.agent, seen.agent_state>>
    IN  IF IsDuplicate(alerts, state_key, seen.timestamp)
        THEN [is_in_shift |-> is_in_shift] @@ seen
             @@ Answer(presence, timestamps, alerts, 200, "Duplicate alert skipped")
        ELSE IF should_trigger_alert(seen.agent_state, seen.duration_min, is_in_shift)
        THEN [is_in_shift |-> is_in_shift, alert |-> TRUE, delivered |-> post_ok] @@ seen
             @@ Answer(presence, timestamps,
                       IF post_ok THEN DictSet(alerts, state_key, seen.timestamp) ELSE alerts,
                       200, "posted")
        ELSE [is_in_shift |-> is_in_shift] @@ seen
             @@ Answer(presence, timestamps, alerts, 200, "posted")

\* lines 865-874: the elapsed time, and the kinds that never notify
Measure(e, agent, agent_state, timestamp, presence, timestamps, alerts, post_ok) ==
    LET duration_ms == get_event_duration(timestamps, agent, agent_state, timestamp)
        seen == [agent |-> agent, agent_state |-> agent_state, timestamp |-> timestamp,
                 duration_ms |-> duration_ms, duration_min |-> parse_duration(duration_ms)]
    IN  IF e.type \in SuppressedKinds
        THEN seen @@ Answer(presence, DictDel(timestamps, <<agent, agent_state>>), alerts,
                            200, "Notifications disabled")
        ELSE Decide(seen, presence, timestamps, alerts,
                    is_within_shift(agent, timestamp), post_ok)

\* The handler without the entry of a state that has none.
EnterWithoutEntry(e, agent, agent_state, timestamp, presence, timestamps, alerts, post_ok) ==
    Measure(e, agent, agent_state, timestamp, presence, timestamps, alerts, post_ok)

\* lines 859-863: the entry time of a state that has none
Enter(e, agent, agent_state, timestamp, presence, timestamps, alerts, post_ok) ==
    Measure(e, agent, agent_state, timestamp, presence,
            IF <<agent, agent_state>> \notin DOMAIN timestamps
            THEN DictSet(timestamps, <<agent, agent_state>>, timestamp)
            ELSE timestamps,
            alerts, post_ok)

\* lines 758-857: the classifier
Classify(e, agent, timestamp, c, alerts, post_ok) ==
    Enter(e, agent, FallbackState(c.presence, e, agent, c.agent_state), timestamp,
          c.presence, c.timestamps, alerts, post_ok)

\* The normaliser without the look-up in agent_shifts.
NormalizeAnyName(presence, timestamps, alerts, e, agent, timestamp, post_ok) ==
    IF ~Truthy(agent)
    THEN Answer(presence, timestamps, alerts, 200, "Agent name not found, event skipped")
    ELSE Classify(e, agent, timestamp,
                  ClassifyAndRecord(presence, timestamps, e, agent, timestamp),
                  alerts, post_ok)

\* lines 699-732: the agent of the event
Normalize(presence, timestamps, alerts, e, agent, timestamp, post_ok) ==
    IF ~Truthy(agent)
    THEN Answer(presence, timestamps, alerts, 200, "Agent name not found, event skipped")
    ELSE IF agent \notin DOMAIN agent_shifts
    THEN Answer(presence, timestamps, alerts, 200, "Unrecognized agent name")
    ELSE Classify(e, agent, timestamp,
                  ClassifyAndRecord(presence, timestamps, e, agent, timestamp),
                  alerts, post_ok)

\* lines 692-697: the event's time; the wall clock when the envelope has none
Timestamp(presence, timestamps, alerts, e, parsed, post_ok) ==
    IF ~parsed.ok THEN Answer(presence, timestamps, alerts, 400, "Invalid timestamp")
    ELSE Normalize(presence, timestamps, alerts, e, ResolveAgent(e), parsed.value, post_ok)

vonage_events(presence, timestamps, alerts, e, now, post_ok) ==
    IF e.type = "" THEN Answer(presence, timestamps, alerts, 400, "Missing event type")
    ELSE IF e.type \in SkippedKinds
    THEN Answer(presence, timestamps, alerts, 200, "Event type not processed")
    ELSE Timestamp(presence, timestamps, alerts, e,
                   IF e.time.fmt = "absent" THEN [ok |-> TRUE, value |-> now]
                   ELSE parse(e.time),
                   post_ok)

(***************************************************************************)
(* Requests                                                                *)
(***************************************************************************)
MaxTime == 5
MaxEvents == 3

\* Monday 12:59 UTC of the reference week: 07:59 in US/Eastern, one minute
\* before the Monday shift of Felicia Martin starts.
BaseTime == (12 * 60 + 59) * SecPerMin

Times == {BaseTime + k * SecPerMin : k \in 0..MaxTime}

BlankEvent ==
    [type |-> "", time |-> NoTime, user |-> Absent, interaction |-> FALSE,
     ichannel |-> Absent, ichannels |-> <<Absent>>, chan_party |-> Absent,
     presence_type |-> "", subcategory |-> "", description |-> "",
     ar_state |-> "", startTime |-> NoTime, endTime |-> NoTime]

PresenceEvent(agent, category, time) ==
    [BlankEvent EXCEPT !.type = "agent.presencechanged.v1", !.time = time,
                       !.user = agent, !.presence_type = category]

ChannelEvent(kind, agent, time) ==
    [BlankEvent EXCEPT !.type = kind, !.time = time, !.interaction = TRUE,
                       !.ichannel = agent]

ActivityEvent(agent, state, startTime, endTime, time) ==
    [BlankEvent EXCEPT !.type = "channel.activityrecord.v0", !.time = time,
                       !.interaction = TRUE, !.ichannel = agent, !.ar_state = state,
                       !.startTime = startTime, !.endTime = endTime]

Agents == {"Felicia Martin"}

PresenceCategories == {"Ready", "LOGGED_OUT", "training"}

ChannelKinds == {"channel.wrapstarted.v1", "channel.ended.v1"}

\* Requests that reach the classifier, at every time of Times.
Classified ==
    {PresenceEvent(a, c, Iso(t)) : a \in Agents, c \in PresenceCategories, t \in Times}
    \cup {ChannelEvent(k, a, Iso(t)) : k \in ChannelKinds, a \in Agents, t \in Times}

\* Requests with a time that does not parse, one of each kind, and the
\* requests answered before the time is read.
Malformed ==
    {PresenceEvent(a, "Ready", Garbage) : a \in Agents}
    \cup {ChannelEvent(k, a, Garbage) :
             k \in ChannelKinds \cup {"channel.alerted.v1"}, a \in Agents}
    \cup {ChannelEvent("channel.alerted.v1", a, Iso(BaseTime)) : a \in Agents}
    \cup {[BlankEvent EXCEPT !.time = Iso(BaseTime)]}

Requests == Classified \cup Malformed

(***************************************************************************)
(* The sequential service: one request at a time                           *)
(***************************************************************************)
Idle == [phase |-> "idle"]

NoThreads == <<>>

NoOrigin == [presence |-> EmptyDict, timestamps |-> EmptyDict, alerts |-> EmptyDict]

NoRun == [state |-> None, since |-> 0, run |-> 0, from |-> None]

\* The Presence Record the duration tracker is to keep for the agent of a
\* classified event: the state, the time of the first event of the run of
\* events that classified to it, the length of the run, and the state before.
Run(e0, r) ==
    LET prev == IF r.agent \in DOMAIN e0 THEN e0[r.agent] ELSE NoRun
    IN  IF r.agent_state = None THEN NoRun
        ELSE IF prev.state = r.agent_state THEN [prev EXCEPT !.run = prev.run + 1]
        ELSE [state |-> r.agent_state, since |-> r.timestamp, run |-> 1,
              from |-> prev.state]

\* An end-of-interaction event retires the record.
Track(e0, e, r) ==
    IF r.agent_state = None THEN e0
    ELSE IF e.type \in SuppressedKinds THEN DictDel(e0, r.agent)
    ELSE DictSet(e0, r.agent, Run(e0, r))

Sink(log, r) ==
    IF r.alert
    THEN Append(log, [agent |-> r.agent, agent_state |-> r.agent_state,
                      timestamp |-> r.timestamp, delivered |-> r.delivered])
    ELSE log

Observed(e, r, record) ==
    [event |-> e, status |-> r.status, message |-> r.message, agent |-> r.agent,
     agent_state |-> r.agent_state, timestamp |-> r.timestamp,
     duration_ms |-> r.duration_ms, duration_min |-> r.duration_min,
     is_in_shift |-> r.is_in_shift, alert |-> r.alert, delivered |-> r.delivered,
     since |-> record.since, run |-> record.run, from |-> record.from]

Init ==
    /\ agent_presence_states = EmptyDict
    /\ agent_state_timestamps = EmptyDict
    /\ last_alerts = EmptyDict
    /\ out = Observed(BlankEvent, Answer(EmptyDict, EmptyDict, EmptyDict, 0, "none"), NoRun)
    /\ sunk = <<>>
    /\ entered = EmptyDict
    /\ nEvents = 0
    /\ calc = Idle
    /\ thr = NoThreads
    /\ origin = NoOrigin

Record(e, r) ==
    /\ agent_presence_states' = r.presence
    /\ agent_state_timestamps' = r.timestamps
    /\ last_alerts' = r.alerts
    /\ out' = Observed(e, r, Run(entered, r))
    /\ sunk' = Sink(sunk, r)
    /\ entered' = Track(entered, e, r)
    /\ nEvents' = nEvents + 1
    /\ UNCHANGED <<calc, thr, origin>>

Handle(e, post_ok) ==
    vonage_events(agent_presence_states, agent_state_timestamps, last_alerts,
                  e, BaseTime, post_ok)

\* A request handled to its answer; Slack accepts the alert, if there is one.
Serve(e) ==
    /\ nEvents < MaxEvents
    /\ \E r \in {Handle(e, TRUE)} : Record(e, r)

\* A request handled to its answer, whose alert Slack does not accept.
ServeUndelivered(e) ==
    /\ nEvents < MaxEvents
    /\ \E r \in {Handle(e, FALSE)} : r.alert /\ Record(e, r)

Next == \E e \in Requests : Serve(e) \/ ServeUndelivered(e)

Spec == Init /\ [][Next]_vars

(***************************************************************************)
(* The decision table on its own: should_trigger_alert applied to a state, *)
(* an elapsed time in hundredths of a minute and an on-shift flag          *)
(***************************************************************************)
MaxCentiMin == 3100

AgentStates ==
    {"Ready", "Ready Outbound", "Idle", "Idle (Outbound)", "Busy", "Wrap",
     "Outgoing Wrap Up", "Lunch", "Break", "Comfort Break", "Logged Out",
     "Device Busy", "Device Unreachable", "Fault", "Away", "Extended Away",
     "In Meeting", "Paperwork", "Team Meeting", "Training", "Unknown"}

Questions ==
    [phase : {"asked"}, agent_state : AgentStates,
     duration_min : {<<c, 100>> : c \in 0..MaxCentiMin},
     is_in_shift : BOOLEAN, result : {FALSE}]

InitDecide ==
    /\ agent_presence_states = EmptyDict
    /\ agent_state_timestamps = EmptyDict
    /\ last_alerts = EmptyDict
    /\ out = Observed(BlankEvent, Answer(EmptyDict, EmptyDict, EmptyDict, 0, "none"), NoRun)
    /\ sunk = <<>>
    /\ entered = EmptyDict
    /\ nEvents = 0
    /\ calc \in Questions
    /\ thr = NoThreads
    /\ origin = NoOrigin

Evaluate ==
    /\ calc.phase = "asked"
    /\ calc' = [calc EXCEPT
                  !.phase = "answered",
                  !.result = should_trigger_alert(calc.agent_state, calc.duration_min,
                                                  calc.is_in_shift)]
    /\ UNCHANGED <<agent_presence_states, agent_state_timestamps, last_alerts, out,
                   sunk, entered, nEvents, thr, origin>>

NextDecide == Evaluate

SpecDecide == InitDecide /\ [][NextDecide]_vars

(***************************************************************************)
(* Two requests in flight at once.  Flask serves each request on a thread  *)
(* of its own and the handler takes no lock, so the threads interleave     *)
(* between any two accesses of the module-level dictionaries.  One action  *)
(* per access; what a thread computes between two accesses belongs to the  *)
(* step of the access before.  Both Slack calls succeed.                   *)
(***************************************************************************)
Threads == {1, 2}

ConcTimes == {BaseTime + Minutes(1), BaseTime + Minutes(2)}

ConcRequests ==
    {PresenceEvent(a, c, Iso(t)) : a \in Agents, c \in {"Ready", "LOGGED_OUT"}, t \in ConcTimes}
    \cup {ChannelEvent(k, a, Iso(t)) :
            k \in {"channel.wrapstarted.v1", "channel.ended.v1"}, a \in Agents, t \in ConcTimes}
    \cup {ChannelEvent("channel.parked.v1", a, Iso(BaseTime + Minutes(1))) : a \in Agents}

\* what was handled, one request at a time, before the two arrive
Earlier ==
    {BlankEvent} \cup
    {PresenceEvent(a, "LOGGED_OUT", Iso(BaseTime)) : a \in Agents} \cup
    {ChannelEvent("channel.wrapstarted.v1", a, Iso(BaseTime)) : a \in Agents}

Arrived(e) ==
    [pc |-> "start", e |-> e, agent |-> None, timestamp |-> 0, agent_state |-> None,
     duration_ms |-> 0, alert |-> FALSE, failed |-> FALSE]

InitConc ==
    /\ \E e0 \in Earlier :
         \E r \in {vonage_events(EmptyDict, EmptyDict, EmptyDict, e0, BaseTime, TRUE)} :
            /\ agent_presence_states = r.presence
            /\ agent_state_timestamps = r.timestamps
            /\ last_alerts = r.alerts
            /\ origin = [presence |-> r.presence, timestamps |-> r.timestamps,
                         alerts |-> r.alerts]
    /\ out = Observed(BlankEvent, Answer(EmptyDict, EmptyDict, EmptyDict, 0, "none"), NoRun)
    /\ sunk = <<>>
    /\ entered = EmptyDict
    /\ nEvents = 0
    /\ calc = Idle
    /\ thr \in {<<Arrived(e1), Arrived(e2)>> : e1 \in ConcRequests, e2 \in ConcRequests}

state_key(th) == <<thr[th].agent, thr[th].agent_state>>

\* the thread's next access, with what it has computed
Goto(th, pc, computed) == thr' = [thr EXCEPT ![th] = computed @@ [pc |-> pc] @@ @]

\* lines 869-876 and 888: after the elapsed time
AfterDuration(th, duration_ms) ==
    Goto(th, IF thr[th].e.type \in SuppressedKinds THEN "check_retire" ELSE "check_alert",
         [duration_ms |-> duration_ms])

\* lines 888-896: the decision, once the de-duplication gate has let the event pass
AfterGate(th) ==
    IF should_trigger_alert(thr[th].agent_state, parse_duration(thr[th].duration_ms),
                            is_within_shift(thr[th].agent, thr[th].timestamp))
    THEN Goto(th, "post", <<>>)
    ELSE Goto(th, "done", <<>>)

\* lines 676-790 and 832-849: everything up to the first access of a table
Begin(th) ==
    /\ thr[th].pc = "start"
    /\ LET e == thr[th].e
           parsed == parse(e.time)
           agent == ResolveAgent(e)
           by_presence == IF e.type = "agent.presencechanged.v1"
                          THEN PresenceState(e) ELSE None
           by_channel == ChannelState(e.type)
       IN  IF \/ e.type = "" \/ e.type \in SkippedKinds \/ ~parsed.ok
              \/ ~Truthy(agent) \/ agent \notin DOMAIN agent_shifts
           THEN Goto(th, "done", <<>>)
           ELSE IF by_presence # None
           THEN Goto(th, "write_presence",
                     [agent |-> agent, timestamp |-> parsed.value,
                      agent_state |-> by_presence])
           ELSE IF by_channel # None
           THEN Goto(th, "check_entry",
                     [agent |-> agent, timestamp |-> parsed.value,
                      agent_state |-> by_channel])
           ELSE Goto(th, "read_presence", [agent |-> agent, timestamp |-> parsed.value])
    /\ UNCHANGED <<agent_presence_states, agent_state_timestamps, last_alerts, sunk>>

\* lines 792-793
WritePresence(th) ==
    /\ thr[th].pc = "write_presence"
    /\ agent_presence_states' =
          DictSet(agent_presence_states, thr[th].agent,
                  <<thr[th].agent_state, thr[th].timestamp>>)
    /\ Goto(th, "write_entry", <<>>)
    /\ UNCHANGED <<agent_state_timestamps, last_alerts, sunk>>

\* lines 794-795
WriteEntry(th) ==
    /\ thr[th].pc = "write_entry"
    /\ agent_state_timestamps' =
          DictSet(agent_state_timestamps, state_key(th), thr[th].timestamp)
    /\ Goto(th, "check_entry", <<>>)
    /\ UNCHANGED <<agent_presence_states, last_alerts, sunk>>

\* lines 852-857; no entry of agent_presence_states is ever deleted, so the
\* membership test and the read that follows it are one access
ReadPresence(th) ==
    /\ thr[th].pc = "read_presence"
    /\ Goto(th, "check_entry",
            [agent_state |-> IF thr[th].agent \in DOMAIN agent_presence_states
                             THEN agent_presence_states[thr[th].agent][1]
                             ELSE "Unknown"])
    /\ UNCHANGED <<agent_presence_states, agent_state_timestamps, last_alerts, sunk>>

\* line 861
CheckEntry(th) ==
    /\ thr[th].pc = "check_entry"
    /\ Goto(th, IF state_key(th) \notin DOMAIN agent_state_timestamps
                THEN "set_entry" ELSE "check_duration", <<>>)
    /\ UNCHANGED <<agent_presence_states, agent_state_timestamps, last_alerts, sunk>>

\* line 862
SetEntry(th) ==
    /\ thr[th].pc = "set_entry"
    /\ agent_state_timestamps' =
          DictSet(agent_state_timestamps, state_key(th), thr[th].timestamp)
    /\ Goto(th, "check_duration", <<>>)
    /\ UNCHANGED <<agent_presence_states, last_alerts, sunk>>

\* lines 495-498
CheckDuration(th) ==
    /\ thr[th].pc = "check_duration"
    /\ IF state_key(th) \notin DOMAIN agent_state_timestamps
       THEN AfterDuration(th, 0)
       ELSE Goto(th, "read_duration", <<>>)
    /\ UNCHANGED <<agent_presence_states, agent_state_timestamps, last_alerts, sunk>>

\* lines 500-506; the KeyError of an entry deleted since line 496 is caught
\* at line 504
ReadDuration(th) ==
    /\ thr[th].pc = "read_duration"
    /\ IF state_key(th) \in DOMAIN agent_state_timestamps
       THEN AfterDuration(th, (thr[th].timestamp - agent_state_timestamps[state_key(th)])
                              * MsPerSec)
       ELSE AfterDuration(th, 0)
    /\ UNCHANGED <<agent_presence_states, agent_state_timestamps, last_alerts, sunk>>

\* line 871
CheckRetire(th) ==
    /\ thr[th].pc = "check_retire"
    /\ Goto(th, IF state_key(th) \in DOMAIN agent_state_timestamps
                THEN "retire" ELSE "done", <<>>)
    /\ UNCHANGED <<agent_presence_states, agent_state_timestamps, last_alerts, sunk>>

\* line 872; the KeyError of an entry deleted since line 871 reaches line 934
Retire(th) ==
    /\ thr[th].pc = "retire"
    /\ IF state_key(th) \in DOMAIN agent_state_timestamps
       THEN /\ agent_state_timestamps' = DictDel(agent_state_timestamps, state_key(th))
            /\ Goto(th, "done", <<>>)
       ELSE /\ UNCHANGED agent_state_timestamps
            /\ Goto(th, "done", [failed |-> TRUE])
    /\ UNCHANGED <<agent_presence_states, last_alerts, sunk>>

\* line 881
CheckAlert(th) ==
    /\ thr[th].pc = "check_alert"
    /\ IF state_key(th) \in DOMAIN last_alerts
       THEN Goto(th, "read_alert", <<>>)
       ELSE AfterGate(th)
    /\ UNCHANGED <<agent_presence_states, agent_state_timestamps, last_alerts, sunk>>

\* lines 882-886; no entry of last_alerts is ever deleted
ReadAlert(th) ==
    /\ thr[th].pc = "read_alert"
    /\ IF IsDuplicate(last_alerts, state_key(th), thr[th].timestamp)
       THEN Goto(th, "done", <<>>)
       ELSE AfterGate(th)
    /\ UNCHANGED <<agent_presence_states, agent_state_timestamps, last_alerts, sunk>>

\* lines 897-925: the alert goes to the sheet and to Slack
Post(th) ==
    /\ thr[th].pc = "post"
    /\ sunk' = Append(sunk, [agent |-> thr[th].agent, agent_state |-> thr[th].agent_state,
                             timestamp |-> thr[th].timestamp, delivered |-> TRUE])
    /\ Goto(th, "record_alert", [alert |-> TRUE])
    /\ UNCHANGED <<agent_presence_states, agent_state_timestamps, last_alerts>>

\* lines 926-927
RecordAlert(th) ==
    /\ thr[th].pc = "record_alert"
    /\ last_alerts' = DictSet(last_alerts, state_key(th), thr[th].timestamp)
    /\ Goto(th, "done", <<>>)
    /\ UNCHANGED <<agent_presence_states, agent_state_timestamps, sunk>>

Step(th) ==
    \/ Begin(th)
    \/ WritePresence(th)
    \/ WriteEntry(th)
    \/ ReadPresence(th)
    \/ CheckEntry(th)
    \/ SetEntry(th)
    \/ CheckDuration(th)
    \/ ReadDuration(th)
    \/ CheckRetire(th)
    \/ Retire(th)
    \/ CheckAlert(th)
    \/ ReadAlert(th)
    \/ Post(th)
    \/ RecordAlert(th)

NextConc ==
    \E th \in Threads :
        /\ Step(th)
        /\ UNCHANGED <<out, entered, nEvents, calc, origin>>

SpecConc == InitConc /\ [][NextConc]_vars

(***************************************************************************)
(* The shift test on its own: is_within_shift applied to an agent and an   *)
(* instant of the reference week                                           *)
(***************************************************************************)
Stranger == "Mallory Unlisted"

\* Every full hour of the week in UTC, with the second before and after it.
Instants == {h * SecPerHour + d : h \in 1..(7 * 24), d \in {-1, 0, 1}}

ShiftQuestions ==
    [phase : {"asked"}, agent : DOMAIN agent_shifts \cup {Stranger},
     timestamp : Instants, result : {FALSE}]

InitShift ==
    /\ agent_presence_states = EmptyDict
    /\ agent_state_timestamps = EmptyDict
    /\ last_alerts = EmptyDict
    /\ out = Observed(BlankEvent, Answer(EmptyDict, EmptyDict, EmptyDict, 0, "none"), NoRun)
    /\ sunk = <<>>
    /\ entered = EmptyDict
    /\ nEvents = 0
    /\ calc \in ShiftQuestions
    /\ thr = NoThreads
    /\ origin = NoOrigin

EvaluateShift ==
    /\ calc.phase = "asked"
    /\ calc' = [calc EXCEPT !.phase = "answered",
                            !.result = is_within_shift(calc.agent, calc.timestamp)]
    /\ UNCHANGED <<agent_presence_states, agent_state_timestamps, last_alerts, out,
                   sunk, entered, nEvents, thr, origin>>

NextShift == EvaluateShift

SpecShift == InitShift /\ [][NextShift]_vars


(***************************************************************************)
(* The normaliser and the presence branch of the classifier on their own:  *)
(* ResolveAgent and PresenceState applied to an envelope                   *)
(***************************************************************************)
\* The shapes a payload can name its agent in, for a presence change and
\* for a call-channel event.
AgentShapes ==
    {[BlankEvent EXCEPT !.type = k, !.user = u, !.interaction = i,
                        !.ichannel = c, !.ichannels = cs, !.chan_party = p] :
        k \in {"agent.presencechanged.v1", "channel.held.v1"},
        u \in {Absent, ""} \cup Agents \cup {Stranger},
        i \in {TRUE},
        c \in {Absent, ""} \cup Agents,
        cs \in {<<Absent>>, <<"">>} \cup {<<"", a>> : a \in Agents}
                \cup {<<a, Stranger>> : a \in Agents},
        p \in {Absent, ""} \cup Agents}
    \cup
    {[BlankEvent EXCEPT !.type = k, !.user = u, !.chan_party = p] :
        k \in {"agent.presencechanged.v1", "channel.held.v1"},
        u \in {Absent, ""} \cup Agents \cup {Stranger},
        p \in {Absent, ""} \cup Agents}

CategoryStrings ==
    {"Ready", "ready", "lunch", "break", "comfort_break", "LOGGED_OUT", "logged_out",
     "training", "meeting", "paperwork", "idle", "team_meeting", "Away", "away",
     "Extended_Away", "extended_away", "extended away", "offline", ""}

DetailStrings == {"", "Outbound", "outbound calls", "ready_outbound", "inbound"}

PresencePayloads ==
    {[BlankEvent EXCEPT !.type = "agent.presencechanged.v1", !.user = a,
                        !.presence_type = c, !.subcategory = s, !.description = d] :
        a \in Agents, c \in CategoryStrings, s \in DetailStrings, d \in DetailStrings}

InitEnvelope ==
    /\ agent_presence_states = EmptyDict
    /\ agent_state_timestamps = EmptyDict
    /\ last_alerts = EmptyDict
    /\ out = Observed(BlankEvent, Answer(EmptyDict, EmptyDict, EmptyDict, 0, "none"), NoRun)
    /\ sunk = <<>>
    /\ entered = EmptyDict
    /\ nEvents = 0
    /\ calc \in [phase : {"asked"}, e : AgentShapes \cup PresencePayloads,
                 agent : {None}, agent_state : {None}]
    /\ thr = NoThreads
    /\ origin = NoOrigin

\* lines 704-721 and 759-789
EvaluateEnvelope ==
    /\ calc.phase = "asked"
    /\ calc' = [calc EXCEPT
                  !.phase = "answered",
                  !.agent = ResolveAgent(calc.e),
                  !.agent_state = IF calc.e.type = "agent.presencechanged.v1"
                                  THEN PresenceState(calc.e) ELSE None]
    /\ UNCHANGED <<agent_presence_states, agent_state_timestamps, last_alerts, out,
                   sunk, entered, nEvents, thr, origin>>

NextEnvelope == EvaluateEnvelope

SpecEnvelope == InitEnvelope /\ [][NextEnvelope]_vars


(***************************************************************************)
(* The sequential service again, with requests of every kind the handler   *)
(* tells apart, at two instants of the shift five minutes apart            *)
(***************************************************************************)
IntakeTimes == {BaseTime + Minutes(1), BaseTime + Minutes(6)}

\* the call-channel lifecycle kinds
LifecycleKinds ==
    {"channel.connectionfailed.v1", "channel.ended.v1", "channel.held.v1",
     "channel.interrupted.v1", "channel.parked.v1", "channel.resumed.v1",
     "channel.retrieved.v1", "channel.unparked.v1", "channel.wrapstarted.v1"}

IntakeRequests ==
    \* presence changes: a recognized category and an unrecognized one
    {PresenceEvent(a, c, Iso(t)) : a \in Agents, c \in {"training", "offline"},
                                   t \in IntakeTimes}
    \* the lifecycle kinds, three of them at both instants
    \cup {ChannelEvent(k, a, Iso(BaseTime + Minutes(1))) : k \in LifecycleKinds, a \in Agents}
    \cup {ChannelEvent(k, a, Iso(BaseTime + Minutes(6))) :
            k \in {"channel.connectionfailed.v1", "channel.wrapstarted.v1",
                   "channel.parked.v1"},
            a \in Agents}
    \* the other kinds that never notify
    \cup {ChannelEvent(k, a, Iso(BaseTime + Minutes(6))) :
            k \in {"channel.disconnected.v1", "interaction.detailrecord.v0"}, a \in Agents}
    \* activity records: a state with a startTime, no state, a state with an endTime
    \cup {ActivityEvent(a, "wrap", Iso(BaseTime), NoTime, Iso(BaseTime + Minutes(1))) :
            a \in Agents}
    \cup {ActivityEvent(a, "", NoTime, NoTime, Iso(BaseTime + Minutes(6))) : a \in Agents}
    \cup {ActivityEvent(a, "wrap", NoTime, Iso(BaseTime + Minutes(6)),
                        Iso(BaseTime + Minutes(6))) : a \in Agents}
    \* payloads that name nobody, or somebody who is not in agent_shifts
    \cup {PresenceEvent(Stranger, "training", Iso(BaseTime + Minutes(1))),
          ChannelEvent("channel.connectionfailed.v1", Stranger, Iso(BaseTime + Minutes(1))),
          ChannelEvent("channel.connectionfailed.v1", "", Iso(BaseTime + Minutes(1))),
          [BlankEvent EXCEPT !.type = "channel.wrapstarted.v1",
                             !.time = Iso(BaseTime + Minutes(1))]}

NextIntake == \E e \in IntakeRequests : Serve(e) \/ ServeUndelivered(e)

SpecIntake == Init /\ [][NextIntake]_vars


(***************************************************************************)
(* The Slack call on its own: post_slack_message as its loop, one step per *)
(* pass, the sink answering each delivery as it pleases                    *)
(***************************************************************************)
\* the default of the parameter retry_count
retry_count == 5

\* What session.post does to one delivery: 200 with a message timestamp in
\* the body, 200 with a body that has none (Slack's {"ok": false}), the
\* rate limit, another status, or an exception.
Responses == {"200 ts", "200", "429", "500", "raises"}

Posting ==
    [phase |-> "posting", attempt |-> 0, responses |-> <<>>, result |-> None,
     reports |-> 0]

\* return value
Returned(c, value) == [c EXCEPT !.phase = "returned", !.result = value]

\* lines 165-174: the except clause of the pass whose number is attempt;
\* reported tells whether the post to the error channel returns
Caught(c, attempt, reported) ==
    IF attempt < retry_count - 1 THEN c
    ELSE IF reported THEN Returned([c EXCEPT !.reports = @ + 1], None)
    ELSE [c EXCEPT !.phase = "raised", !.reports = @ + 1]

\* lines 146-174: one pass of the loop; reported and reported_again tell
\* whether the post to the error channel of line 161, and of line 173 after
\* it, returns
Pass(c, response, reported, reported_again) ==
    LET tried == [c EXCEPT !.attempt = @ + 1, !.responses = Append(@, response)]
    IN  CASE response = "raises" -> Caught(tried, c.attempt, reported)
          [] response = "429" ->
                IF c.attempt < retry_count - 1 THEN tried ELSE Returned(tried, None)
          [] response = "500" ->
                IF reported THEN Returned([tried EXCEPT !.reports = @ + 1], None)
                ELSE Caught([tried EXCEPT !.reports = @ + 1], c.attempt, reported_again)
          [] response = "200" -> Returned(tried, None)
          [] OTHER -> Returned(tried, "ts")

InitPost ==
    /\ agent_presence_states = EmptyDict
    /\ agent_state_timestamps = EmptyDict
    /\ last_alerts = EmptyDict
    /\ out = Observed(BlankEvent, Answer(EmptyDict, EmptyDict, EmptyDict, 0, "none"), NoRun)
    /\ sunk = <<>>
    /\ entered = EmptyDict
    /\ nEvents = 0
    /\ calc = Posting
    /\ thr = NoThreads
    /\ origin = NoOrigin

Deliver(response) ==
    /\ calc.phase = "posting"
    /\ \E reported, reported_again \in BOOLEAN :
          calc' = Pass(calc, response, reported, reported_again)
    /\ UNCHANGED <<agent_presence_states, agent_state_timestamps, last_alerts, out,
                   sunk, entered, nEvents, thr, origin>>

NextPost == \E response \in Responses : Deliver(response)

SpecPost == InitPost /\ [][NextPost]_vars


(***************************************************************************)
(* The handler with its two sinks, each answering as it pleases: the       *)
(* ledger (log_to_followups, the weekly tab of the follow-ups sheet) and   *)
(* the notification (post_slack_message)                                   *)
(***************************************************************************)
\* What log_to_followups does with one alert: it appends the row; or it
\* returns without a row, the sheet service not being there (lines 547-549)
\* or a call of the sheet raising and the post to the error channel of line
\* 586 returning; or a call of the sheet raises and that post raises too,
\* out of the except clause.
LedgerOutcomes == {"appended", "no row", "raises"}

\* What post_slack_message does with one alert: it returns the message
\* timestamp, returns None, or raises out of its except clause (line 173).
SlackOutcomes == {"ts", "None", "raises"}

\* Slack is called when the ledger returns.
SinkOutcomes ==
    {[ledger |-> l, slack |-> s] : l \in LedgerOutcomes \ {"raises"}, s \in SlackOutcomes}
    \cup {[ledger |-> "raises", slack |-> "not called"]}

Reliable == [ledger |-> "appended", slack |-> "ts"]

\* line 894
states_without_interaction ==
    {"Idle", "Idle (Outbound)", "Device Busy", "Device Unreachable", "Fault",
     "In Meeting", "Paperwork", "Team Meeting", "Training", "Logged Out"}

\* The buttons without the approval branch.
blocks_without_approval(agent_state) ==
    IF agent_state \in states_without_interaction
    THEN {"assign_to_me"}
    ELSE {"assign_to_me", "copy_interaction_id", "vonage_link"}

\* lines 899-924: the action_id of each button of the alert
blocks(agent_state) ==
    IF agent_state \in {"Training", "In Meeting", "Paperwork", "Team Meeting"}
    THEN {"approve_event", "not_approve_event"}
    ELSE IF agent_state \in states_without_interaction
    THEN {"assign_to_me"}
    ELSE {"assign_to_me", "copy_interaction_id", "vonage_link"}

\* JSON null as the state of an activity record
Null == "<null>"

\* line 801: interaction.get("state", "").lower() raises AttributeError on
\* a null state
RaisesInClassifier(e) == e.type = "channel.activityrecord.v0" /\ e.ar_state = Null

\* The outer except clause answering for a request that rolls the writes
\* it made to the presence and duration tables back.
FaultRollsBack(before, r) ==
    [r EXCEPT !.status = 200, !.message = "error", !.delivered = FALSE,
              !.presence = before.presence, !.timestamps = before.timestamps]

\* The outer except clause answering with a server error.
FaultServerError(before, r) ==
    [r EXCEPT !.status = 500, !.message = "error", !.delivered = FALSE]

\* lines 934-936: the outer except clause answers 200 with the error; the
\* tables stay as the request left them when the exception was raised
Fault(before, r) ==
    [r EXCEPT !.status = 200, !.message = "error", !.delivered = FALSE]

Quiet == [ledger |-> FALSE, handed |-> FALSE, actions |-> {}]

\* lines 888-933 with the sinks answering as w says: the ledger first, then
\* the buttons, then Slack, then the fingerprint
Alert(before, r, w) ==
    IF w.ledger = "raises" THEN Quiet @@ Fault(before, r)
    ELSE LET called == [ledger |-> w.ledger = "appended", handed |-> TRUE,
                        actions |-> blocks(r.agent_state)]
         IN  IF w.slack = "raises" THEN called @@ Fault(before, r)
             ELSE called @@ r

\* The handler: vonage_events with the Slack call returning a timestamp
\* when both sinks let it, and the exceptions of the classifier and of the
\* sinks caught by the outer except clause.
vonage_events_sinks(presence, timestamps, alerts, e, now, w) ==
    LET before == [presence |-> presence, timestamps |-> timestamps, alerts |-> alerts]
        r == vonage_events(presence, timestamps, alerts, e, now,
                           w.slack = "ts")
    IN  IF r.agent # None /\ RaisesInClassifier(e)
        THEN Quiet @@ Fault(before, Answer(presence, timestamps, alerts, 200, "error"))
        ELSE IF r.alert THEN Alert(before, r, w)
        ELSE Quiet @@ r

\* the wall clock when a request arrives
Clock == {BaseTime + Minutes(1), BaseTime + Minutes(2)}

SinkRequests ==
    \* a state that alerts at once and asks for an approval, twice
    {PresenceEvent(a, "training", Iso(t)) : a \in Agents, t \in IntakeTimes}
    \* a state that alerts at once inside the shift
    \cup {PresenceEvent(a, "LOGGED_OUT", Iso(BaseTime + Minutes(1))) : a \in Agents}
    \* a state that alerts after two minutes, with the interaction's buttons
    \cup {ChannelEvent("channel.wrapstarted.v1", a, Iso(t)) : a \in Agents, t \in IntakeTimes}
    \* an envelope without a time: the wall clock stands in
    \cup {PresenceEvent(a, "training", NoTime) : a \in Agents}
    \* the kinds skipped at the door, with a time that parses and without
    \cup {ChannelEvent("channel.alerted.v1", a, Iso(BaseTime + Minutes(1))) : a \in Agents}
    \cup {ChannelEvent("channel.connected.v1", a, time) :
            a \in Agents, time \in {Iso(BaseTime + Minutes(1)), Garbage}}
    \* no type; a time that does not parse
    \cup {[BlankEvent EXCEPT !.time = Iso(BaseTime + Minutes(1))]}
    \cup {PresenceEvent(a, "training", Garbage) : a \in Agents}
    \* an activity record the classifier raises on
    \cup {ActivityEvent(a, Null, NoTime, NoTime, Iso(BaseTime + Minutes(1))) : a \in Agents}

\* the alerts the handler decided to send, with what each sink did
Sinks(log, r) ==
    IF r.alert
    THEN Append(log, [agent |-> r.agent, agent_state |-> r.agent_state,
                      timestamp |-> r.timestamp, delivered |-> r.delivered,
                      ledger |-> r.ledger, handed |-> r.handed, actions |-> r.actions])
    ELSE log

RecordSinks(e, r, now, w) ==
    /\ agent_presence_states' = r.presence
    /\ agent_state_timestamps' = r.timestamps
    /\ last_alerts' = r.alerts
    /\ out' = [ledger |-> r.ledger, handed |-> r.handed, actions |-> r.actions,
               now |-> now, sinks |-> w, replay |-> (nEvents > 0 /\ e = out.event),
               after |-> out.message]
              @@ Observed(e, r, Run(entered, r))
    /\ sunk' = Sinks(sunk, r)
    /\ entered' = Track(entered, e, r)
    /\ nEvents' = nEvents + 1
    /\ UNCHANGED <<calc, thr, origin>>

\* A request handled to its answer, the sinks answering as w says.  When
\* the request sends no alert the sinks are not called: w is Reliable.
ServeSinks(e) ==
    /\ nEvents < MaxEvents
    /\ \E now \in Clock, w \in SinkOutcomes :
          \E r \in {vonage_events_sinks(agent_presence_states, agent_state_timestamps,
                                        last_alerts, e, now, w)} :
              /\ r.alert \/ w = Reliable
              /\ e.time.fmt = "absent" \/ now = BaseTime + Minutes(1)
              /\ RecordSinks(e, r, now, w)

NextSinks == \E e \in SinkRequests : ServeSinks(e)

SpecSinks == Init /\ [][NextSinks]_vars


(***************************************************************************)
(* The handler with sinks that work, for one request of every state that   *)
(* the events of one morning can make fire                                 *)
(***************************************************************************)
ButtonRequests ==
    {PresenceEvent(a, c, Iso(BaseTime + Minutes(1))) :
        a \in Agents,
        c \in {"training", "meeting", "paperwork", "team_meeting", "LOGGED_OUT"}}
    \cup {ChannelEvent(k, a, Iso(t)) :
            k \in {"channel.connectionfailed.v1", "channel.wrapstarted.v1"},
            a \in Agents, t \in IntakeTimes}

\* A request handled to its answer, the row appended and the alert posted
\* if there is one.
ServeReliable(e) ==
    /\ nEvents < MaxEvents
    /\ \E r \in {vonage_events_sinks(agent_presence_states, agent_state_timestamps,
                                     last_alerts, e, BaseTime + Minutes(1), Reliable)} :
          RecordSinks(e, r, BaseTime + Minutes(1), Reliable)

NextButtons == \E e \in ButtonRequests : ServeReliable(e)

SpecButtons == Init /\ [][NextButtons]_vars


(***************************************************************************)
(* The sequential service with the requests of every kind and the          *)
(* call-progress kinds besides                                             *)
(***************************************************************************)
SoundRequests ==
    IntakeRequests
    \cup {ChannelEvent(k, a, Iso(BaseTime + Minutes(1))) : k \in SkippedKinds, a \in Agents}

NextSound == \E e \in SoundRequests : Serve(e) \/ ServeUndelivered(e)

SpecSound == Init /\ [][NextSound]_vars


(***************************************************************************)
(* The sequential service with two agents on the same shift                *)
(***************************************************************************)
Pair == {"Felicia Martin", "Lyne Jean"}

PairRequests ==
    {PresenceEvent(a, c, Iso(BaseTime + Minutes(1))) : a \in Pair, c \in {"training", "offline"}}
    \cup {ChannelEvent(k, a, Iso(t)) : k \in {"channel.wrapstarted.v1"}, a \in Pair,
                                       t \in IntakeTimes}
    \cup {ChannelEvent(k, a, Iso(BaseTime + Minutes(1))) :
            k \in {"channel.ended.v1", "channel.parked.v1"}, a \in Pair}

NextPair == \E e \in PairRequests : Serve(e) \/ ServeUndelivered(e)

SpecPair == Init /\ [][NextPair]_vars



(***************************************************************************)
(* The handler of app.py: the same webhook, with no table of its own; it   *)
(* reads the elapsed time off the event and keeps no state between two     *)
(* requests.                                                               *)
(*                                                                         *)
(* body         whether request.json is an object; FALSE for a JSON null   *)
(* type         data["type"]; "" when missing                              *)
(* time         data["time"], as in the other handler                      *)
(* agentId      data.user.agentId; Absent without it                       *)
(* address      the address of the agent party of                          *)
(*              data.interaction.channels; Absent without an interaction   *)
(* duration     the duration of that channel, in milliseconds              *)
(* category, subcategory, description   data.presence                      *)
(*                                                                         *)
(* No event of the model has a data.channel object or channelEvents.       *)
(***************************************************************************)
\* line 169: the entry of the agent the requests name
app_agent_id_to_name == "1030" :> "Felicia Martin"

\* line 193: the entry of the agent the requests name
app_agent_shifts ==
    "Felicia Martin" :> [timezone |-> "US/Eastern",
                         shifts |-> Week(MonFri, <<8, "am">>, <<4, "pm">>)]

\* lines 420-438
app_is_within_shift(agent, timestamp) ==
    IF agent \notin DOMAIN app_agent_shifts THEN FALSE
    ELSE LET agent_data == app_agent_shifts[agent]
             local_time == LocalTime(agent_data.timezone, timestamp)
             day == DayOf(local_time)
         IN  IF day \notin DOMAIN agent_data.shifts THEN FALSE
             ELSE LET shift == agent_data.shifts[day]
                      midnight == (local_time \div SecPerDay) * SecPerDay
                      start_time == midnight + StrptimeHour(shift[1]) * SecPerHour
                      end_time == midnight + StrptimeHour(shift[2]) * SecPerHour
                  IN  start_time <= local_time /\ local_time <= end_time

\* lines 441-448: int(duration) / 1000 / 60, for a whole number of
\* milliseconds
app_parse_duration(duration) == <<duration, MsPerSec * SecPerMin>>

\* lines 475-500: the status of a presence change; None when the category
\* is none of the ten
app_PresenceStatus(e) ==
    LET presence_type == Lower(e.category)
        subcategory == Lower(e.subcategory)
        description == Lower(e.description)
    IN  CASE presence_type = "ready" ->
                IF \/ Contains(subcategory, "outbound")
                   \/ Contains(description, "outbound")
                   \/ Contains(subcategory, "ready_outbound")
                   \/ Contains(description, "ready_outbound")
                THEN "Ready Outbound" ELSE "Ready"
          [] presence_type = "lunch" -> "Lunch"
          [] presence_type = "break" -> "Break"
          [] presence_type = "comfort_break" -> "Comfort Break"
          [] presence_type = "logged_out" -> "Logged Out"
          [] presence_type = "training" -> "Training"
          [] presence_type = "meeting" -> "In Meeting"
          [] presence_type = "paperwork" -> "Paperwork"
          [] presence_type = "idle" -> "Idle"
          [] presence_type = "away" -> "Away"
          [] OTHER -> None

\* lines 453-526: the status of an event, the event's kind when no rule
\* gives one
app_Status(e) ==
    LET status ==
            CASE e.type = "channel.disconnected.v1" -> "Logged Out"
              [] e.type = "agent.presencechanged.v1" -> app_PresenceStatus(e)
              [] e.type = "channel.alerted.v1" -> "Ready"
              [] e.type = "channel.connected.v1" -> "Ready"
              [] e.type = "channel.connectionfailed.v1" -> "Device Busy"
              [] e.type = "channel.ended.v1" -> "Logged Out"
              [] e.type = "channel.held.v1" -> "Break"
              [] e.type = "channel.interrupted.v1" -> "Break"
              [] e.type = "channel.parked.v1" -> "Away"
              [] e.type = "channel.resumed.v1" -> "Ready"
              [] e.type = "channel.retrieved.v1" -> "Ready"
              [] e.type = "channel.unparked.v1" -> "Ready"
              [] e.type = "channel.wrapstarted.v1" -> "Wrap"
              [] OTHER -> None
    IN  IF status = None THEN e.type ELSE status

\* lines 451-557: what the function returns, or that it raises.  The last
\* rule names agent and timestamp, which are neither parameters of the
\* function nor names of the module: evaluating it raises NameError, and
\* it is evaluated exactly when the status is one of the three.
app_should_trigger_alert(e, duration_min, is_in_shift) ==
    LET status == app_Status(e)
        return(value) == [raises |-> FALSE, value |-> value, alert_status |-> status]
    IN  IF status \in {"Wrap", "Outgoing Wrap Up"} /\ MoreThan(duration_min, 2)
        THEN return(TRUE)
        ELSE IF status \in {"Ready", "Ready Outbound"} /\ MoreThan(duration_min, 2)
                /\ is_in_shift THEN return(TRUE)
        ELSE IF status = "Handle Time" THEN return(TRUE)
        ELSE IF status = "Lunch" /\ MoreThan(duration_min, 30) THEN return(TRUE)
        ELSE IF status = "Break" /\ MoreThan(duration_min, 15) THEN return(TRUE)
        ELSE IF status = "Comfort Break" /\ MoreThan(duration_min, 5) THEN return(TRUE)
        ELSE IF status = "Logged Out" /\ is_in_shift THEN return(TRUE)
        ELSE IF status \in {"Device Busy", "Idle", "Away"} THEN return(TRUE)
        ELSE IF status \in {"Training", "In Meeting", "Paperwork"}
        THEN [raises |-> TRUE, value |-> FALSE, alert_status |-> status]
        ELSE return(FALSE)

\* lines 619-640: the agent of the event; None when there is none
app_ResolveAgent(e) ==
    IF e.type = "agent.presencechanged.v1"
    THEN IF Truthy(e.agentId) /\ e.agentId \in DOMAIN app_agent_id_to_name
         THEN app_agent_id_to_name[e.agentId] ELSE None
    ELSE IF e.address # Absent THEN e.address
    ELSE IF Truthy(e.agentId) /\ e.agentId \in DOMAIN app_agent_id_to_name
    THEN app_agent_id_to_name[e.agentId] ELSE None

\* lines 647-656: the elapsed time the event carries
app_Duration(e) == IF e.address # Absent THEN e.duration ELSE 0

\* What Slack does with the post of lines 123-130: it answers 200, it
\* answers another status, or requests.post raises.
AppSlackOutcomes == {"200", "500", "raises"}

\* The handler's answer: the status of the response and of its body,
\* whether should_trigger_alert returned True, whether the alert was taken
\* by Slack, and whether it had the two approval buttons.
AppAnswer(status_code, status, agent, alert_status, alert, posted) ==
    [status_code |-> status_code, status |-> status, agent |-> agent,
     alert_status |-> alert_status, alert |-> alert, posted |-> posted,
     approval |-> alert /\ alert_status \in {"Training", "In Meeting", "Paperwork"}]

\* lines 715-717: the except clause of the handler
AppCaught(agent, alert_status, alert) ==
    AppAnswer(500, "error", agent, alert_status, alert, FALSE)

\* lines 674-714: the alert
app_Alert(e, agent, timestamp, slack) ==
    LET is_in_shift == app_is_within_shift(agent, timestamp)
        decision == app_should_trigger_alert(e, app_parse_duration(app_Duration(e)),
                                             is_in_shift)
    IN  IF decision.raises THEN AppCaught(agent, decision.alert_status, FALSE)
        ELSE IF ~decision.value
        THEN AppAnswer(200, "posted", agent, decision.alert_status, FALSE, FALSE)
        ELSE IF slack = "raises" THEN AppCaught(agent, decision.alert_status, TRUE)
        ELSE AppAnswer(200, "posted", agent, decision.alert_status, TRUE, slack = "200")

\* lines 599-717; now is the clock read at line 612 for an event without
\* a time, slack is what Slack does with the post
app_vonage_events(e, now, slack) ==
    IF ~e.body THEN AppCaught(None, None, FALSE)
    ELSE IF e.type = "" THEN AppAnswer(400, "error", None, None, FALSE, FALSE)
    ELSE LET parsed == IF e.time.fmt = "absent" THEN [ok |-> TRUE, value |-> now]
                       ELSE parse(e.time)
             agent == app_ResolveAgent(e)
         IN  IF ~parsed.ok THEN AppCaught(None, None, FALSE)
             ELSE IF ~Truthy(agent) THEN AppAnswer(200, "skipped", None, None, FALSE, FALSE)
             ELSE IF e.type = "channel.activityrecord.v0"
             THEN AppAnswer(200, "disposition logged", agent, None, FALSE, FALSE)
             ELSE IF e.type \in {"channel.ended.v1", "channel.disconnected.v1"}
             THEN AppAnswer(200, "skipped", agent, None, FALSE, FALSE)
             ELSE app_Alert(e, agent, parsed.value, slack)

AppBlank ==
    [body |-> TRUE, type |-> "", time |-> NoTime, agentId |-> Absent, address |-> Absent,
     duration |-> 0, category |-> "", subcategory |-> "", description |-> ""]

AppPresence(agentId, category, time) ==
    [AppBlank EXCEPT !.type = "agent.presencechanged.v1", !.time = time,
                     !.agentId = agentId, !.category = category]

AppChannel(kind, address, duration, time) ==
    [AppBlank EXCEPT !.type = kind, !.time = time, !.address = address,
                     !.duration = duration]

AppTimes == {Iso(BaseTime + Minutes(1)), NoTime, Garbage}

AppRequests ==
    {AppPresence(id, c, t) :
        id \in {"1030", "9999"},
        c \in {"training", "meeting", "paperwork", "lunch", "logged_out", "away", "Ready"},
        t \in AppTimes}
    \cup {AppChannel(k, "Felicia Martin", d, t) :
            k \in {"channel.wrapstarted.v1", "channel.connectionfailed.v1",
                   "channel.ended.v1", "channel.activityrecord.v0"},
            d \in {0, Minutes(3) * MsPerSec},
            t \in AppTimes}
    \cup {AppBlank, [AppBlank EXCEPT !.body = FALSE]}

\* A request handled by app.py to its answer.
ServeApp(e, slack) ==
    /\ nEvents < MaxEvents
    /\ \E r \in {app_vonage_events(e, BaseTime, slack)} :
          /\ out' = [event |-> e, slack |-> slack] @@ r
          /\ sunk' = IF r.posted THEN Append(sunk, [agent |-> r.agent,
                                                    agent_state |-> r.alert_status])
                     ELSE sunk
    /\ nEvents' = nEvents + 1
    /\ UNCHANGED <<agent_presence_states, agent_state_timestamps, last_alerts,
                   entered, calc, thr, origin>>

NextApp == \E e \in AppRequests, slack \in AppSlackOutcomes : ServeApp(e, slack)

SpecApp == Init /\ [][NextApp]_vars


(***************************************************************************)
(* Claims about the sequential service                                     *)
(***************************************************************************)
\* The last request reached the classifier.
WasClassified == out.agent_state # None

FiveMinutes == 5 * SecPerMin

Distance(t1, t2) == IF t1 < t2 THEN t2 - t1 ELSE t1 - t2

SameFingerprint(x, y) == x.agent = y.agent /\ x.agent_state = y.agent_state

AllDelivered == \A i \in 1..Len(sunk) : sunk[i].delivered

\* C1: with requests handled one at a time and every notification
\* delivered, any two alerts fired for one fingerprint (agent, state) have
\* event timestamps at least 5 minutes apart, whatever the order and the
\* kinds of the events.
C1_FiresFiveMinutesApart ==
    AllDelivered =>
        \A i, j \in 1..Len(sunk) :
            (i < j /\ SameFingerprint(sunk[i], sunk[j]))
                => Distance(sunk[i].timestamp, sunk[j].timestamp) >= FiveMinutes

\* Two alerts were fired and delivered for one fingerprint.
C1_Witness ==
    /\ AllDelivered
    /\ \E i, j \in 1..Len(sunk) : i < j /\ SameFingerprint(sunk[i], sunk[j])

\* C2: when two consecutively handled events of an agent classify to the
\* same state, the elapsed time computed for the second is its timestamp
\* minus the time the agent first entered the state.
C2_TimerKeepsRunning ==
    (WasClassified /\ out.run >= 2)
        => out.duration_ms = (out.timestamp - out.since) * MsPerSec

\* C3: when an event classifies an agent to a state other than the one its
\* previous event classified to, the elapsed time computed is zero and the
\* tracked entry time of the agent becomes the event's timestamp.  (Stated
\* for the events that do not retire the entry.)
C3_TransitionResets ==
    (WasClassified /\ out.run = 1 /\ out.from # None
     /\ out.event.type \notin SuppressedKinds)
        => /\ out.duration_ms = 0
           /\ <<out.agent, out.agent_state>> \in DOMAIN agent_state_timestamps
           /\ agent_state_timestamps[<<out.agent, out.agent_state>>] = out.timestamp

Jane == "Felicia Martin"

\* The instants t of the scenario: t, t + 3 min and t + 4 min are times of
\* the model inside Jane's shift.
ScenarioStarts ==
    {t \in Times : \A d \in {0, 3, 4} :
        t + Minutes(d) \in Times /\ is_within_shift(Jane, t + Minutes(d))}

ReadyAt(t) == PresenceEvent(Jane, "Ready", Iso(t))

\* C4: from empty tables, three presence-change events classifying Jane to
\* Ready at t, t + 3 min and t + 4 min, all within her shift, give in order
\* no alert (elapsed 0), one alert (elapsed 3 min) and a suppression by the
\* de-duplication gate.
C4_Scenario ==
    [][\A t \in ScenarioStarts :
        /\ (nEvents = 0 /\ out'.event = ReadyAt(t))
              => (~out'.alert /\ out'.duration_ms = 0 /\ out'.message = "posted")
        /\ (nEvents = 1 /\ out.event = ReadyAt(t) /\ out'.event = ReadyAt(t + Minutes(3)))
              => (out'.alert /\ out'.duration_ms = Minutes(3) * MsPerSec)
        /\ (nEvents = 2 /\ out.event = ReadyAt(t + Minutes(3)) /\ out.delivered
             /\ out.run = 2 /\ out.since = t /\ out'.event = ReadyAt(t + Minutes(4)))
              => (~out'.alert /\ out'.message = "Duplicate alert skipped")
      ]_vars

\* No fire is recorded for the fingerprint less than 5 minutes before t (a
\* recorded fire of a later timestamp counts as one).
NoRecentFire(agent, agent_state, t) ==
    <<agent, agent_state>> \in DOMAIN last_alerts
        => t - last_alerts[<<agent, agent_state>>] >= FiveMinutes

\* The request handled by this step classified its agent to Logged Out and
\* no fire for that fingerprint was recorded in the 5 minutes before it.
LoggedOutStep ==
    /\ nEvents' = nEvents + 1
    /\ out'.agent_state = "Logged Out"
    /\ NoRecentFire(out'.agent, "Logged Out", out'.timestamp)

Tables == <<agent_presence_states, agent_state_timestamps, last_alerts>>

\* C10 as stated: an event whose timestamp cannot be parsed is answered
\* with 400, leaves the three tables unchanged and calls no sink, whatever
\* its kind.
C10_BadTimestampRejected_AnyKind ==
    [][(nEvents' = nEvents + 1 /\ out'.event.time.fmt = "garbage")
        => (out'.status = 400 /\ UNCHANGED Tables /\ UNCHANGED sunk)]_vars

\* C10, amended: so it is for every kind but channel.alerted.v1 and
\* channel.connected.v1, which are answered with 200 as skipped before the
\* timestamp is read, the tables unchanged and no sink called.
C10_BadTimestampRejected ==
    [][(nEvents' = nEvents + 1 /\ out'.event.time.fmt = "garbage")
        => /\ UNCHANGED Tables /\ UNCHANGED sunk
           /\ out'.status = IF out'.event.type \in SkippedKinds THEN 200 ELSE 400]_vars

\* A presence change with an unparseable timestamp was answered with 400
\* after some event had filled the tables.
C10_Witness ==
    /\ out.event.time.fmt = "garbage"
    /\ out.event.type = "agent.presencechanged.v1"
    /\ out.status = 400
    /\ DOMAIN agent_state_timestamps # {}

(***************************************************************************)
(* Claims about the decision table                                         *)
(***************************************************************************)
Answered == calc.phase = "answered"

\* The threshold table of the specification.
ThresholdTable(state, elapsed, onShift) ==
    CASE state \in {"Wrap", "Outgoing Wrap Up"} -> elapsed[1] > 2 * elapsed[2]
      [] state \in {"Ready", "Ready Outbound", "Idle", "Idle (Outbound)"} ->
            elapsed[1] > 2 * elapsed[2] /\ onShift
      [] state = "Busy" -> elapsed[1] > 8 * elapsed[2]
      [] state = "Lunch" -> elapsed[1] > 30 * elapsed[2]
      [] state = "Break" -> elapsed[1] > 15 * elapsed[2]
      [] state = "Comfort Break" -> elapsed[1] > 5 * elapsed[2]
      [] state = "Logged Out" -> onShift
      [] state \in {"Device Busy", "Device Unreachable", "Fault", "Away", "Extended Away",
                    "In Meeting", "Paperwork", "Team Meeting", "Training"} -> TRUE
      [] OTHER -> FALSE

\* C5: should_trigger_alert equals the specification's threshold table for
\* every state of the enumeration, every elapsed time and both on-shift
\* values.
C5_MatchesThresholdTable ==
    Answered
        => calc.result = ThresholdTable(calc.agent_state, calc.duration_min,
                                        calc.is_in_shift)

\* The timed thresholds, in minutes.
TimedThreshold ==
    "Wrap" :> 2 @@ "Busy" :> 8 @@ "Lunch" :> 30 @@ "Break" :> 15 @@ "Comfort Break" :> 5

\* C6: every timed threshold is strict: an elapsed time of exactly the
\* threshold does not fire and any elapsed time above it fires.
C6_StrictThresholds ==
    (Answered /\ calc.agent_state \in DOMAIN TimedThreshold)
        => LET limit == TimedThreshold[calc.agent_state] * calc.duration_min[2]
           IN  /\ calc.duration_min[1] = limit => ~calc.result
               /\ calc.duration_min[1] > limit => calc.result

\* Wrap at 2.01 minutes has fired.
C6_Witness ==
    /\ Answered /\ calc.agent_state = "Wrap"
    /\ calc.duration_min = <<201, 100>> /\ calc.result

(***************************************************************************)
(* Claims about two requests in flight                                     *)
(***************************************************************************)
BothDone == \A th \in Threads : thr[th].pc = "done"

\* the tables after the two requests, one after the other
Serial(first, second) ==
    LET a == vonage_events(origin.presence, origin.timestamps, origin.alerts,
                           thr[first].e, BaseTime, TRUE)
    IN  vonage_events(a.presence, a.timestamps, a.alerts, thr[second].e, BaseTime, TRUE)

SameTables(r) ==
    /\ agent_presence_states = r.presence
    /\ agent_state_timestamps = r.timestamps

\* A request handled with nothing else in flight leaves what the handler,
\* taken as one step, leaves.
AloneAgrees ==
    \A th \in Threads :
        (thr[th].pc = "done" /\ \A other \in Threads \ {th} : thr[other].pc = "start")
            => LET r == vonage_events(origin.presence, origin.timestamps, origin.alerts,
                                      thr[th].e, BaseTime, TRUE)
               IN  /\ SameTables(r) /\ last_alerts = r.alerts
                   /\ thr[th].alert = r.alert /\ ~thr[th].failed
                   /\ r.agent # None => thr[th].duration_ms = r.duration_ms

\* C8: two requests for the same agent handled concurrently leave
\* agent_presence_states and agent_state_timestamps as one of the two serial
\* orders leaves them, and neither handler fails.
C8_Serializable ==
    (BothDone /\ thr[1].agent = thr[2].agent /\ thr[1].agent # None)
        => /\ \A th \in Threads : ~thr[th].failed
           /\ SameTables(Serial(1, 2)) \/ SameTables(Serial(2, 1))

\* C9: of two requests handled concurrently whose events have the same
\* (agent, state) fingerprint and timestamps less than 5 minutes apart, at
\* most one fires an alert.
C9_AtMostOneFires ==
    (/\ \A th \in Threads : thr[th].agent # None
     /\ state_key(1) = state_key(2)
     /\ Distance(thr[1].timestamp, thr[2].timestamp) < FiveMinutes)
        => ~(thr[1].alert /\ thr[2].alert)


(***************************************************************************)
(* Claims about the shift test                                             *)
(***************************************************************************)
\* The hour of day an hour string names as the end of a shift: 12am is the
\* midnight that ends the day.
EndHour(h) == IF h = <<12, "am">> THEN 24 ELSE StrptimeHour(h)

\* The shift window of the weekday the instant falls on in the agent's time
\* zone contains the instant, ends included.
ShiftContains(agent, timestamp) ==
    /\ agent \in DOMAIN agent_shifts
    /\ LET zone == agent_shifts[agent].timezone
           local_time == LocalTime(zone, timestamp)
           day == DayOf(local_time)
           time_of_day == local_time % SecPerDay
       IN  /\ day \in DOMAIN agent_shifts[agent].shifts
           /\ LET shift == agent_shifts[agent].shifts[day]
              IN  /\ StrptimeHour(shift[1]) * SecPerHour <= time_of_day
                  /\ time_of_day <= EndHour(shift[2]) * SecPerHour

\* C20: is_within_shift is true exactly when the instant, in the agent's
\* time zone, falls on a weekday with a shift entry and lies between the
\* shift's start and end inclusive, an end of 12am being the midnight at the
\* end of that day; a weekday without an entry and an unknown agent give
\* false.
C20_ShiftWindow ==
    calc.phase = "answered" => (calc.result <=> ShiftContains(calc.agent, calc.timestamp))


(***************************************************************************)
(* Claims about the normaliser and the presence branch                     *)
(***************************************************************************)
\* The presence-change mapping of the specification, on the lower-cased
\* category, subcategory and description.
PresenceTable(category, subcategory, description) ==
    LET outbound == Contains(subcategory, "outbound") \/ Contains(description, "outbound")
    IN  CASE category = "ready" -> IF outbound THEN "Ready Outbound" ELSE "Ready"
          [] category = "lunch" -> "Lunch"
          [] category = "break" -> "Break"
          [] category = "comfort_break" -> "Comfort Break"
          [] category = "logged_out" -> "Logged Out"
          [] category = "training" -> "Training"
          [] category = "meeting" -> "In Meeting"
          [] category = "paperwork" -> "Paperwork"
          [] category = "idle" -> IF outbound THEN "Idle (Outbound)" ELSE "Idle"
          [] category = "away" -> "Away"
          [] category \in {"extended_away", "extended away"} -> "Extended Away"
          [] category = "team_meeting" -> "Team Meeting"
          [] OTHER -> None

\* C17: for a presence-change event the classifier maps the lower-cased
\* category (with the outbound variants of ready and idle) to the state the
\* specification gives it, away and extended away included; any other
\* category yields no classification.
C17_PresenceMapping ==
    (calc.phase = "answered" /\ calc.e.type = "agent.presencechanged.v1")
        => calc.agent_state = PresenceTable(Lower(calc.e.presence_type),
                                            Lower(calc.e.subcategory),
                                            Lower(calc.e.description))

\* The names the extraction strategies yield, in the order of the
\* specification: the presence-change payload, the single call-channel
\* description, the list of call-channel descriptions, the channel with a
\* party, the top-level user object.
Strategies(e) ==
    <<IF e.type = "agent.presencechanged.v1" THEN e.user ELSE Absent,
      IF e.interaction THEN e.ichannel ELSE Absent,
      IF e.interaction THEN FirstTruthy(e.ichannels) ELSE Absent,
      e.chan_party,
      e.user>>

RECURSIVE FirstYield(_)
\* The first name a strategy yields; None when none yields one.
FirstYield(names) ==
    IF names = <<>> THEN None
    ELSE IF Truthy(Head(names)) THEN Head(names)
    ELSE FirstYield(Tail(names))

\* C19: the strategies are tried in order and the first that yields an
\* agent wins; a strategy whose shape is present but yields no agent does
\* not stop the later ones from being tried.
C19_FirstStrategyWins ==
    calc.phase = "answered"
        => IF Truthy(FirstYield(Strategies(calc.e)))
           THEN calc.agent = FirstYield(Strategies(calc.e))
           ELSE ~Truthy(calc.agent)


(***************************************************************************)
(* Claims about the requests of every kind                                 *)
(***************************************************************************)
\* The request handled by this step.
Handled == nEvents' = nEvents + 1

\* The request gets as far as the resolution of its agent: it has a type,
\* is not of a skipped kind, and its time, if it has one, parses.
ReachesResolution(e) ==
    /\ e.type # "" /\ e.type \notin SkippedKinds
    /\ e.time.fmt = "absent" \/ parse(e.time).ok

\* The payload names nobody, or somebody who is not in agent_shifts.
Unresolved(e) ==
    \/ ~Truthy(ResolveAgent(e))
    \/ ResolveAgent(e) \notin DOMAIN agent_shifts

\* Every key of the three tables belongs to an agent of agent_shifts.
KnownKeys ==
    /\ DOMAIN agent_presence_states \subseteq DOMAIN agent_shifts
    /\ \A k \in DOMAIN agent_state_timestamps \cup DOMAIN last_alerts :
          k[1] \in DOMAIN agent_shifts

\* C11: a request whose payload, once its agent is looked for, resolves to
\* no agent or to a name that is not in agent_shifts is answered with 200
\* and a skip message, the three tables unchanged and no sink called; and
\* after every request every key of the three tables belongs to a known
\* agent.
C11_UnknownAgentSkipped ==
    [][/\ (Handled /\ ReachesResolution(out'.event) /\ Unresolved(out'.event))
            => /\ out'.status = 200
               /\ out'.message \in {"Agent name not found, event skipped",
                                    "Unrecognized agent name"}
               /\ UNCHANGED Tables /\ UNCHANGED sunk
       /\ KnownKeys']_vars

\* A presence change of somebody not in agent_shifts was skipped while the
\* tables held entries.
C11_Witness ==
    /\ out.event.user = Stranger
    /\ out.event.type = "agent.presencechanged.v1"
    /\ out.message = "Unrecognized agent name"
    /\ DOMAIN agent_state_timestamps # {}
    /\ DOMAIN last_alerts # {}


\* The kinds that close an interaction.
ClosingKinds == {"channel.ended.v1", "channel.disconnected.v1", "interaction.detailrecord.v0"}

\* C12: a request of a notification-suppressing kind (channel.ended.v1,
\* channel.disconnected.v1, interaction.detailrecord.v0) hands no alert to
\* the sheet or to Slack and leaves last_alerts as it was, whatever the
\* agent, the history and the elapsed time.
C12_ClosingKindsNeverAlert ==
    [][(Handled /\ out'.event.type \in ClosingKinds)
          => (~out'.alert /\ UNCHANGED sunk /\ UNCHANGED last_alerts)]_vars

\* A channel.ended.v1 was handled for an agent inside the shift, in a state
\* that alerts at once there, with no fire recorded for the fingerprint.
C12_Witness ==
    /\ out.event.type = "channel.ended.v1"
    /\ out.agent_state = "Logged Out"
    /\ is_within_shift(out.agent, out.timestamp)
    /\ <<out.agent, "Logged Out">> \notin DOMAIN last_alerts
    /\ ~out.alert


\* The states of the claim that alert whatever the elapsed time and shift.
Unconditional == {"Device Busy", "In Meeting", "Paperwork", "Team Meeting", "Training"}

\* C13: an event that moves a known agent into a state that fires
\* unconditionally fires an alert on that same event, with elapsed 0, unless
\* a fire for the fingerprint was recorded less than 5 minutes before the
\* event's time.
C13_FiresOnEntry ==
    [][(/\ Handled
        /\ out'.agent_state \in Unconditional
        /\ out'.run = 1
        /\ NoRecentFire(out'.agent, out'.agent_state, out'.timestamp))
          => (out'.alert /\ out'.duration_ms = 0)]_vars


(***************************************************************************)
(* Claims about the entries of the duration tracker                        *)
(***************************************************************************)
\* C14: after any sequence of requests the duration tracker holds, for each
\* agent, an entry time for at most one state.
C14_OneEntryPerAgent ==
    \A k1, k2 \in DOMAIN agent_state_timestamps : k1[1] = k2[1] => k1 = k2

\* C15: while an agent stays in a state the recorded entry time of that
\* state never decreases, and an event that classifies to the state the
\* agent is already in does not change it.
C15_EntryTimeKept ==
    [][(/\ Handled
        /\ out'.run >= 2
        /\ <<out'.agent, out'.agent_state>> \in DOMAIN agent_state_timestamps)
          => /\ <<out'.agent, out'.agent_state>> \in DOMAIN agent_state_timestamps'
             /\ agent_state_timestamps'[<<out'.agent, out'.agent_state>>]
                   = agent_state_timestamps[<<out'.agent, out'.agent_state>>]]_vars


(***************************************************************************)
(* Claims about the classifier                                             *)
(***************************************************************************)
\* The state agent_presence_states holds for the agent; Unknown without one.
Stored(agent) ==
    IF agent \in DOMAIN agent_presence_states
    THEN agent_presence_states[agent][1] ELSE "Unknown"

\* The presence-change branch yields no state for the event.
NoPresenceState(e) == e.type # "agent.presencechanged.v1" \/ PresenceState(e) = None

\* The activity-record branch yields no state for the event.
NoActivityState(e) == e.type # "channel.activityrecord.v0" \/ ActivityState(e) = None

\* C16 as stated: when neither the presence-change branch nor the
\* call-channel table yields a state, the event is classified to the state
\* of the agent's stored presence record, or to Unknown without one; and an
\* Unknown classification never fires.
C16_FallsBack_TwoBranches ==
    /\ (WasClassified /\ NoPresenceState(out.event)
        /\ ChannelState(out.event.type) = None)
          => out.agent_state = Stored(out.agent)
    /\ out.agent_state = "Unknown" => ~out.alert

\* C16, amended: so it is when the activity-record branch yields no state
\* either.
C16_FallsBack ==
    /\ (WasClassified /\ NoPresenceState(out.event) /\ NoActivityState(out.event)
        /\ ChannelState(out.event.type) = None)
          => out.agent_state = Stored(out.agent)
    /\ out.agent_state = "Unknown" => ~out.alert

\* A channel.parked.v1 event was classified to the state of the agent's
\* last recognized presence change.
C16_Witness ==
    /\ out.event.type = "channel.parked.v1"
    /\ out.agent \in DOMAIN agent_presence_states
    /\ out.agent_state = "Training"


\* The state the handler gives an event of the kind when nothing is known
\* of the agent and the payload holds the agent's name only.
KindState(kind) ==
    vonage_events(EmptyDict, EmptyDict, EmptyDict,
                  ChannelEvent(kind, Jane, Iso(BaseTime)), BaseTime, TRUE).agent_state

\* C18: an event of a call-channel lifecycle kind (connection failed, ended,
\* held, interrupted, parked, resumed, retrieved, unparked, wrap-started) is
\* classified to one state fixed by its kind, whatever the payload and the
\* agent's prior state; wrap-started gives Wrap and connection failed gives
\* Device Busy.
C18_FixedStatePerKind ==
    /\ (WasClassified /\ out.event.type \in LifecycleKinds)
          => out.agent_state = KindState(out.event.type)
    /\ KindState("channel.wrapstarted.v1") = "Wrap"
    /\ KindState("channel.connectionfailed.v1") = "Device Busy"

(***************************************************************************)
(* Claims about the Slack call                                             *)
(***************************************************************************)
\* C30: post_slack_message makes at most retry_count (5) deliveries
\* whatever the sink answers, and it always returns: a message timestamp
\* only after a 200 response, None otherwise.
C30_PostReturns ==
    /\ calc.attempt <= retry_count
    /\ calc.phase # "raised"
    /\ calc.phase = "posting" => calc.attempt < retry_count
    /\ (calc.phase = "returned" /\ calc.result # None)
          => calc.responses[Len(calc.responses)] = "200 ts"


(***************************************************************************)
(* Claims about the handler with its sinks                                 *)
(***************************************************************************)
\* The request handled by this step is the one handled just before.
Replay == Handled /\ nEvents > 0 /\ out'.event = out.event

\* C21, as claimed: handling an event a second time in a row leaves the
\* three tables as the first time left them, classifies it to the same
\* state, and at most one of the two alerts is delivered.
C21_ReplayIdempotent_AnySink ==
    [][Replay => /\ UNCHANGED Tables
                 /\ out'.agent_state = out.agent_state
                 /\ ~(out.delivered /\ out'.delivered)]_vars

\* C21: handling an event that carries its own time a second time in a row
\* leaves agent_presence_states and agent_state_timestamps as the first
\* time left them, classifies it to the same state, and at most one of the
\* two alerts is delivered; last_alerts is left as it was too, unless the
\* first alert was not delivered and the second is, which records the
\* fingerprint at the event's time.
C21_ReplayIdempotent ==
    [][(Replay /\ out'.event.time.fmt # "absent")
          => /\ UNCHANGED <<agent_presence_states, agent_state_timestamps>>
             /\ out'.agent_state = out.agent_state
             /\ ~(out.delivered /\ out'.delivered)
             /\ \/ UNCHANGED last_alerts
                \/ /\ out.alert /\ ~out.delivered /\ out'.delivered
                   /\ last_alerts' = DictSet(last_alerts,
                                             <<out'.agent, out'.agent_state>>,
                                             out'.timestamp)]_vars

\* An event with a time of its own fired and was delivered, and was handled
\* again at once: the second time it was skipped as a duplicate.
C21_Witness ==
    /\ nEvents > 0
    /\ out.replay
    /\ out.event.time.fmt = "iso"
    /\ out.message = "Duplicate alert skipped"
    /\ Len(sunk) = 1 /\ sunk[1].delivered /\ sunk[1].timestamp = out.timestamp



\* What the handler answers to the request of this step when both sinks
\* work.
WithReliableSinks ==
    vonage_events_sinks(agent_presence_states, agent_state_timestamps, last_alerts,
                        out'.event, out'.now, Reliable)

\* C22: the presence and duration tables after an event that fires are the
\* ones the same event leaves when both sinks succeed, whatever the ledger
\* and Slack did, exceptions included.
C22_SinksKeepTransition ==
    [][(Handled /\ out'.alert)
          => /\ agent_presence_states' = WithReliableSinks.presence
             /\ agent_state_timestamps' = WithReliableSinks.timestamps]_vars

\* A presence change fired, the ledger raised and so did its report, and the
\* presence and the entry time written for the event are in the tables.
C22_Witness ==
    /\ nEvents > 0
    /\ out.alert /\ out.sinks.ledger = "raises" /\ out.message = "error"
    /\ out.event.type = "agent.presencechanged.v1"
    /\ out.agent \in DOMAIN agent_presence_states
    /\ agent_presence_states[out.agent] = <<out.agent_state, out.timestamp>>
    /\ <<out.agent, out.agent_state>> \in DOMAIN agent_state_timestamps



\* The envelope has no type, or a time that does not parse.
StructurallyInvalid(e) == e.type = "" \/ e.time.fmt = "garbage"

\* C23: the handler answers 400 only to an envelope without a type or with
\* a time that does not parse, and 200 to every other request, those
\* included on which the classifier or a sink raises; and the request after
\* one that raised is not answered with an error when nothing raises while
\* it is handled.
C23_ClientErrorOnlyForBadInput ==
    [][Handled
          => /\ out'.status \in {200, 400}
             /\ out'.status = 400 => StructurallyInvalid(out'.event)
             /\ (/\ nEvents > 0 /\ out.message = "error"
                 /\ out'.sinks = Reliable /\ ~RaisesInClassifier(out'.event))
                   => out'.message # "error"]_vars

\* The request before raised and was answered 200 with the error; this one
\* fired and was delivered.
C23_Witness ==
    /\ nEvents > 1
    /\ out.after = "error"
    /\ out.status = 200 /\ out.alert /\ out.delivered



\* the states whose alert asks for an approval
ApprovalStates == {"Training", "In Meeting", "Paperwork", "Team Meeting"}

ApprovalActions == {"approve_event", "not_approve_event"}

\* C24: every alert handed to Slack carries the buttons its state alone
\* calls for: approve and not-approve and no assign button for Training,
\* In Meeting, Paperwork and Team Meeting; the assign button and neither
\* approval button for every other state.
C24_ButtonsByState ==
    \A i \in 1..Len(sunk) :
        sunk[i].handed =>
            IF sunk[i].agent_state \in ApprovalStates
            THEN ApprovalActions \subseteq sunk[i].actions
                 /\ "assign_to_me" \notin sunk[i].actions
            ELSE "assign_to_me" \in sunk[i].actions
                 /\ sunk[i].actions \cap ApprovalActions = {}

\* Two alerts were handed to Slack: one asking for an approval, and one for
\* a state with an interaction.
C24_Witness ==
    /\ Len(sunk) = 2
    /\ \A i \in 1..2 : sunk[i].handed
    /\ {sunk[i].agent_state : i \in 1..2} = {"Team Meeting", "Wrap"}



\* the call-progress kinds
ProgressKinds == {"channel.alerted.v1", "channel.connected.v1"}

\* C25: a channel.alerted.v1 or channel.connected.v1 request leaves the
\* three tables as they were, calls neither sink and is answered 200 as
\* skipped, whatever else its envelope holds.
C25_ProgressKindsSkipped ==
    [][(Handled /\ out'.event.type \in ProgressKinds)
          => /\ UNCHANGED Tables /\ UNCHANGED sunk
             /\ ~out'.alert /\ ~out'.ledger /\ ~out'.handed
             /\ out'.agent_state = None
             /\ out'.status = 200 /\ out'.message = "Event type not processed"]_vars

\* A channel.connected.v1 naming a known agent, with a time that does not
\* parse, was skipped while the tables held an entry for that agent.
C25_Witness ==
    /\ out.event.type = "channel.connected.v1"
    /\ out.event.time = Garbage
    /\ out.event.ichannel \in DOMAIN agent_presence_states
    /\ out.status = 200



(***************************************************************************)
(* Claims about the first event of a state                                 *)
(***************************************************************************)
\* The request of this step was classified, and the duration table had no
\* entry for its agent and state.
FirstSight ==
    /\ Handled
    /\ out'.agent_state # None
    /\ <<out'.agent, out'.agent_state>> \notin DOMAIN agent_state_timestamps

\* An activity record of a recognized state with a startTime that parses
\* and no endTime that does.
StartsEarlier(e) ==
    /\ e.type = "channel.activityrecord.v0"
    /\ ActivityState(e) # None
    /\ parse(e.startTime).ok
    /\ ~parse(e.endTime).ok

\* C26, as claimed: an event of any kind that classifies a known agent to a
\* state for which there is no entry gets the elapsed time 0, and the entry
\* it leaves has the event's timestamp.
C26_EntryAtEventTime_AnyKind ==
    [][FirstSight
          => /\ out'.duration_ms = 0
             /\ <<out'.agent, out'.agent_state>> \in DOMAIN agent_state_timestamps'
                  => agent_state_timestamps'[<<out'.agent, out'.agent_state>>]
                       = out'.timestamp]_vars

\* C26: an event that classifies a known agent to a state for which there
\* is no entry, and is not an activity record that brings the start of its
\* state, gets the elapsed time 0 and leaves an entry with the event's
\* timestamp, unless its kind never notifies: that entry is dropped again.
\* An activity record that brings the start of its state leaves an entry
\* with that start, and its elapsed time is counted from it.
C26_EntryAtEventTime ==
    [][FirstSight
          => LET key == <<out'.agent, out'.agent_state>>
                 e == out'.event
             IN  IF StartsEarlier(e)
                 THEN /\ key \in DOMAIN agent_state_timestamps'
                      /\ agent_state_timestamps'[key] = parse(e.startTime).value
                      /\ out'.duration_ms
                           = (out'.timestamp - parse(e.startTime).value) * MsPerSec
                 ELSE /\ out'.duration_ms = 0
                      /\ IF e.type \in ClosingKinds
                         THEN key \notin DOMAIN agent_state_timestamps'
                         ELSE /\ key \in DOMAIN agent_state_timestamps'
                              /\ agent_state_timestamps'[key] = out'.timestamp]_vars

\* A lifecycle event moved an agent, tracked in another state, to a state
\* without an entry: the entry has the event's time and the elapsed time
\* is 0.
C26_Witness ==
    /\ out.event.type = "channel.connectionfailed.v1"
    /\ out.agent_state = "Device Busy"
    /\ out.run = 1 /\ out.from # None
    /\ out.duration_ms = 0
    /\ <<out.agent, "Device Busy">> \in DOMAIN agent_state_timestamps
    /\ agent_state_timestamps[<<out.agent, "Device Busy">>] = out.timestamp



(***************************************************************************)
(* Claims about the ledger and the fingerprints                            *)
(***************************************************************************)
\* C27: with requests handled one at a time and Slack free to fail, any two
\* rows appended to the ledger for one fingerprint (agent, state) have
\* event timestamps at least 5 minutes apart.
C27_LedgerFiveMinutesApart ==
    \A i, j \in 1..Len(sunk) :
        (i < j /\ sunk[i].ledger /\ sunk[j].ledger /\ SameFingerprint(sunk[i], sunk[j]))
            => Distance(sunk[i].timestamp, sunk[j].timestamp) >= FiveMinutes



\* The alerts of a fingerprint that Slack took, oldest first.
Fired(key) ==
    SelectSeq(sunk, LAMBDA a : a.delivered /\ <<a.agent, a.agent_state>> = key)

\* The fingerprints of the alerts that Slack took.
FiredKeys == {<<sunk[i].agent, sunk[i].agent_state>> : i \in {j \in 1..Len(sunk) : sunk[j].delivered}}

C29_SinksFailApart ==
    [][(Handled /\ out'.alert)
          => /\ out'.handed
             /\ Len(sunk') = Len(sunk) + 1
             /\ sunk'[Len(sunk')].ledger = (out'.sinks.ledger = "appended")]_vars



(***************************************************************************)
(* Claims about the end of an interaction                                  *)
(***************************************************************************)
\* The request of this step is an end-of-interaction event of an agent who
\* was tracked in a state.
Retires ==
    /\ Handled
    /\ out'.event.type \in ClosingKinds
    /\ out'.agent_state # None
    /\ out'.agent \in DOMAIN entered

\* C31: after an end-of-interaction event (channel.ended.v1,
\* channel.disconnected.v1, interaction.detailrecord.v0) of agent A,
\* agent_state_timestamps holds no entry for the state A was in before the
\* event; the next event classifying A to that state therefore finds no
\* entry and starts from elapsed 0.
C31_EndRetiresEntry ==
    [][Retires
          => <<out'.agent, entered[out'.agent].state>>
                \notin DOMAIN agent_state_timestamps']_vars



\* C32: after an activity record that carries an endTime and classifies
\* agent A to state S (Wrap, Busy or Ready), agent_state_timestamps holds
\* no entry for (A, S).
C32_EndTimeClearsEntry ==
    [][(/\ Handled
        /\ out'.event.type = "channel.activityrecord.v0"
        /\ out'.event.endTime.fmt # "absent"
        /\ out'.agent_state # None
        /\ out'.agent_state = ActivityState(out'.event))
          => <<out'.agent, out'.agent_state>> \notin DOMAIN agent_state_timestamps']_vars



(***************************************************************************)
(* Claims about every alert                                                *)
(***************************************************************************)
\* C35: every alert handed to a sink is for an agent of agent_shifts, for
\* an event kind that is neither skipped nor notification-suppressing, with
\* no fire recorded for its fingerprint less than 5 minutes before the
\* event's time, for a state that is not Unknown, and for a state, an
\* elapsed time and an on-shift flag, computed on that event, for which the
\* decision table says to fire.
C35_AlertsAreSound ==
    [][(Handled /\ out'.alert)
          => /\ out'.agent \in DOMAIN agent_shifts
             /\ out'.event.type \notin ProgressKinds \cup ClosingKinds
             /\ NoRecentFire(out'.agent, out'.agent_state, out'.timestamp)
             /\ out'.agent_state # "Unknown"
             /\ out'.is_in_shift = is_within_shift(out'.agent, out'.timestamp)
             /\ out'.duration_min
                  = parse_duration(get_event_duration(agent_state_timestamps', out'.agent,
                                                      out'.agent_state, out'.timestamp))
             /\ ThresholdTable(out'.agent_state, out'.duration_min, out'.is_in_shift)]_vars

\* A second alert was delivered for a fingerprint five minutes after the
\* first, with a fire recorded for it.
C35_Witness ==
    /\ out.alert /\ out.delivered
    /\ \E i \in 1..Len(sunk) :
          /\ sunk[i].delivered
          /\ sunk[i].agent = out.agent /\ sunk[i].agent_state = out.agent_state
          /\ out.timestamp - sunk[i].timestamp = FiveMinutes



(***************************************************************************)
(* Claims about what an event leaves alone                                 *)
(***************************************************************************)
\* The request of this step is a presence change of a known agent with a
\* category the classifier recognizes.
RecognizedPresence ==
    /\ out'.event.type = "agent.presencechanged.v1"
    /\ out'.agent # None
    /\ PresenceState(out'.event) # None

\* C36: agent_presence_states is written by a presence change with a
\* recognized category, for its agent, and by no other request; so the
\* state an uninformative event is classified to is the one of the agent's
\* last recognized presence change, whatever the agent's events were
\* classified to since.
C36_PresenceWrittenByPresenceOnly ==
    [][Handled
          => /\ IF RecognizedPresence
                THEN agent_presence_states'
                       = DictSet(agent_presence_states, out'.agent,
                                 <<PresenceState(out'.event), out'.timestamp>>)
                ELSE UNCHANGED agent_presence_states
             /\ (/\ out'.agent_state # None
                 /\ NoPresenceState(out'.event) /\ NoActivityState(out'.event)
                 /\ ChannelState(out'.event.type) = None
                 /\ out'.agent \in DOMAIN agent_presence_states)
                   => out'.agent_state = agent_presence_states[out'.agent][1]]_vars

\* An uninformative event was classified to the state of the agent's
\* presence change, Training, though the event before it had been classified
\* to another state.
C36_Witness ==
    /\ out.event.type = "channel.parked.v1"
    /\ out.agent_state = "Training"
    /\ out.from \notin {None, "Training"}
    /\ agent_presence_states[out.agent][1] = "Training"



\* The entries of a table keyed by (agent, state) that belong to the agent,
\* and those that do not.
OfAgent(d, agent) == [k \in {x \in DOMAIN d : x[1] = agent} |-> d[k]]

OfOthers(d, agent) == [k \in {x \in DOMAIN d : x[1] # agent} |-> d[k]]

\* What the handler answers to the request of this step when the tables hold
\* the entries of its agent only.
Alone ==
    LET a == out'.agent
    IN  vonage_events([x \in DOMAIN agent_presence_states \cap {a} |-> agent_presence_states[x]],
                      OfAgent(agent_state_timestamps, a), OfAgent(last_alerts, a),
                      out'.event, BaseTime, out'.delivered)

\* C37: a request resolved to agent A leaves the entries of every other
\* agent in the three tables as they were, and what the handler decides for
\* it (state, elapsed time, alert or not, answer) is what it decides with
\* the other agents' entries taken out of the tables.
C37_AgentsIsolated ==
    [][(Handled /\ out'.agent # None)
          => /\ \A b \in DOMAIN agent_presence_states' \cup DOMAIN agent_presence_states :
                   b # out'.agent
                     => /\ b \in DOMAIN agent_presence_states
                        /\ b \in DOMAIN agent_presence_states'
                        /\ agent_presence_states'[b] = agent_presence_states[b]
             /\ OfOthers(agent_state_timestamps', out'.agent)
                  = OfOthers(agent_state_timestamps, out'.agent)
             /\ OfOthers(last_alerts', out'.agent) = OfOthers(last_alerts, out'.agent)
             /\ Alone.agent_state = out'.agent_state
             /\ Alone.duration_ms = out'.duration_ms
             /\ Alone.alert = out'.alert
             /\ Alone.message = out'.message]_vars

\* An alert was fired for an agent while the tables held a presence, an
\* entry and a fire of less than 5 minutes before for the same state of
\* another agent.
C37_Witness ==
    /\ out.alert /\ out.agent # None
    /\ \E b \in DOMAIN agent_presence_states :
          /\ b # out.agent
          /\ <<b, out.agent_state>> \in DOMAIN agent_state_timestamps
          /\ <<b, out.agent_state>> \in DOMAIN last_alerts
          /\ out.timestamp - last_alerts[<<b, out.agent_state>>] < FiveMinutes



(***************************************************************************)
(* Claims about the de-duplication gate                                    *)
(***************************************************************************)
\* The request of this step was suppressed as a duplicate.
Suppressed == Handled /\ out'.message = "Duplicate alert skipped"

\* What the handler answers to the request of this step when no fire is
\* recorded.
WithoutFires ==
    vonage_events(agent_presence_states, agent_state_timestamps, EmptyDict,
                  out'.event, BaseTime, TRUE)

\* C38: the tables are updated before the de-duplication gate.  An event
\* suppressed as a duplicate leaves agent_presence_states and
\* agent_state_timestamps as the same event leaves them when last_alerts is
\* empty, and leaves last_alerts as it was.
C38_UpdateBeforeGate ==
    [][Suppressed
          => /\ agent_presence_states' = WithoutFires.presence
             /\ agent_state_timestamps' = WithoutFires.timestamps
             /\ UNCHANGED last_alerts]_vars

\* A presence change was suppressed as a duplicate, and the presence and
\* the entry it wrote, with its own time, are in the tables.
C38_Witness ==
    /\ out.message = "Duplicate alert skipped"
    /\ out.event.type = "agent.presencechanged.v1"
    /\ agent_presence_states[out.agent] = <<out.agent_state, out.timestamp>>
    /\ agent_state_timestamps[<<out.agent, out.agent_state>>] = out.timestamp
    /\ last_alerts[<<out.agent, out.agent_state>>] # out.timestamp



\* The request of this step got as far as the de-duplication gate, with a
\* time earlier than the fire recorded for its fingerprint.
EarlierThanLastFire ==
    /\ Handled
    /\ "is_in_shift" \in DOMAIN out'
    /\ <<out'.agent, out'.agent_state>> \in DOMAIN last_alerts
    /\ out'.timestamp < last_alerts[<<out'.agent, out'.agent_state>>]

\* C39: an event that reaches the de-duplication gate with a time earlier
\* than the fire recorded for its fingerprint is suppressed, however much
\* earlier it is, and no entry of last_alerts is ever removed or moved back.
C39_EarlierEventsSuppressed ==
    [][/\ EarlierThanLastFire => out'.message = "Duplicate alert skipped"
       /\ \A k \in DOMAIN last_alerts :
             k \in DOMAIN last_alerts' /\ last_alerts'[k] >= last_alerts[k]]_vars

\* An event five minutes earlier than the fire recorded for its fingerprint,
\* for a state that fires at once, was suppressed.
C39_Witness ==
    /\ out.message = "Duplicate alert skipped"
    /\ out.agent_state = "Training"
    /\ last_alerts[<<out.agent, out.agent_state>>] - out.timestamp >= 5 * SecPerMin



(***************************************************************************)
(* Claims about the handler of app.py                                      *)
(***************************************************************************)
\* The request app.py answered last is a presence change of a known agent
\* whose category is training, meeting or paperwork, with a time that
\* parses or none, and Slack takes what is posted to it.
ApprovalPresence ==
    /\ nEvents > 0
    /\ out.event.body
    /\ out.event.type = "agent.presencechanged.v1"
    /\ out.event.agentId \in DOMAIN app_agent_id_to_name
    /\ out.event.category \in {"training", "meeting", "paperwork"}
    /\ out.event.time # Garbage
    /\ out.slack = "200"

\* C33: in app.py, a presence change of a known agent with category
\* training, meeting or paperwork makes should_trigger_alert return True,
\* an alert with the approval buttons is posted, and the handler answers
\* with a success status.
C33_ApprovalAlertPosted ==
    ApprovalPresence
        => /\ out.alert
           /\ out.approval
           /\ out.posted
           /\ out.status_code \in 200..299

\* C34: app.py answers 400 for a missing event kind and for a time that
\* does not parse, and with a 2xx status for every other event, those that
\* raise inside the handler included; it never answers with a 5xx status.
C34_NeverServerError ==
    nEvents > 0
        => /\ (out.event.body /\ (out.event.type = "" \/ out.event.time = Garbage))
                => out.status_code = 400
           /\ ~(out.event.body /\ (out.event.type = "" \/ out.event.time = Garbage))
                => out.status_code \in 200..299
           /\ out.status_code < 500


====
